---- MODULE Spec2Model ----
(***************************************************************************)
(* Model of the static-routing traceroute engine of react-traceroute       *)
(* (src/src/utils/traceroute.js): the address matcher isIPInNetwork, the   *)
(* route lookup findRouteEntry, the gateway resolution                     *)
(* findEquipmentByGateway and the hop loop of executeTraceroute.           *)
(*                                                                         *)
(* JavaScript strings that the code parses (addresses, masks, gateways)    *)
(* are sequences of one-character strings, so that split, Number,          *)
(* parseInt, replace and toLowerCase are computed and not assumed.         *)
(* Equipment names are only compared with ===, so they are TLA+ strings.   *)
(* A JavaScript number is a record [nan, v]; a nullable value is a         *)
(* sequence of length 0 (null) or 1.                                       *)
(***************************************************************************)
EXTENDS Integers, Sequences, FiniteSets, TLC

VARIABLES
    \* isIPInNetwork: one call of the address matcher
    ip, network, mask, inNetwork,
    \* executeTraceroute: the arguments, the locals and the returned object
    routingTable, sourceEquipment, sourceIP, destIP,
    hops, visitedEquipment, currentEquipment, hopCount,
    routeEntry, nextEquipment, pc, result,
    \* the caller of executeTraceroute: the table as it passed it and the
    \* objects its earlier calls returned
    caller,
    \* NetworkDiagram: the nodes and the edges it draws
    nodes, edges,
    \* utils/localStorage: the items of the browser's localStorage, the
    \* clock read by new Date(), the number of exceptions setItem has
    \* raised, and the objects whose saveRoutingData returned true since the
    \* history was last cleared (latest first)
    localStorage, now, thrown, saved,
    \* App: its state, the callbacks it has deferred with setTimeout, the
    \* files Papa.parse is reading for FileUploader, and the outcome of the
    \* load that completed last
    routingData, traceResult, error, editMode, pending, parsing, lastLoad,
    \* RoutingTableEditor: its state, and the entry shown in the row when
    \* Edit was pressed
    editingIndex, editForm, opened

diagramVars == <<nodes, edges>>
storageVars == <<localStorage, now, thrown, saved>>
appVars == <<routingData, traceResult, error, editMode, pending, parsing,
             lastLoad>>
editorVars == <<editingIndex, editForm, opened>>
uiVars == <<diagramVars, storageVars, appVars, editorVars>>
matcherVars == <<ip, network, mask, inNetwork>>
argVars == <<routingTable, sourceEquipment, sourceIP, destIP>>
traceVars == <<routingTable, sourceEquipment, sourceIP, destIP,
               hops, visitedEquipment, currentEquipment, hopCount,
               routeEntry, nextEquipment, pc, result, caller>>
vars == <<ip, network, mask, inNetwork,
          routingTable, sourceEquipment, sourceIP, destIP,
          hops, visitedEquipment, currentEquipment, hopCount,
          routeEntry, nextEquipment, pc, result, caller, uiVars>>

----------------------------------------------------------------------------
(* JavaScript values and operators used by the engine *)

Pow2(n) == 2 ^ n

\* A number: NaN or an integer. The integers the engine computes with are
\* the values of short digit strings and the results of the bitwise
\* operators, which are signed 32-bit integers: all lie in
\* -2^31 .. 2^31 - 1
Num(v) == [nan |-> FALSE, v |-> v]
NaN == [nan |-> TRUE, v |-> 0]

\* -2^31
MinInt32 == (0 - Pow2(30)) - Pow2(30)

\* The result of x >>> 0: a number in 0 .. 2^32 - 1, kept as the signed
\* 32-bit integer that has the same 32 bits
Unsigned(bits) == [unsigned |-> bits]
IsUnsigned(x) == "unsigned" \in DOMAIN x

\* ToInt32: NaN becomes 0, an unsigned 32-bit number becomes the signed
\* number with the same bits, an integer already in -2^31 .. 2^31 - 1 is
\* itself
ToInt32(x) ==
    IF IsUnsigned(x) THEN x.unsigned
    ELSE IF x.nan THEN 0
    ELSE x.v

\* The shift count of << : ToUint32(n) & 31
ShiftCount(n) == ToInt32(n) % 32

\* x & y and x | y on 0..255
RECURSIVE And8(_, _)
And8(x, y) ==
    IF x = 0 \/ y = 0 THEN 0
    ELSE IF x = 255 THEN y
    ELSE IF y = 255 THEN x
    ELSE 2 * And8(x \div 2, y \div 2) + (x % 2) * (y % 2)

RECURSIVE Or8(_, _)
Or8(x, y) ==
    IF x = 0 THEN y
    ELSE IF y = 0 THEN x
    ELSE IF x = 255 \/ y = 255 THEN 255
    ELSE 2 * Or8(x \div 2, y \div 2) + (IF x % 2 = 1 \/ y % 2 = 1 THEN 1 ELSE 0)

\* x & y and x | y on signed 32-bit integers in two's complement, eight bits
\* at a time: x % 256 is the low byte and x \div 256 (rounding down) the
\* remaining bits with the sign
RECURSIVE And32(_, _)
And32(x, y) ==
    IF x = 0 \/ y = 0 THEN 0
    ELSE IF x = -1 THEN y
    ELSE IF y = -1 THEN x
    ELSE 256 * And32(x \div 256, y \div 256) + And8(x % 256, y % 256)

RECURSIVE Or32(_, _)
Or32(x, y) ==
    IF x = 0 THEN y
    ELSE IF y = 0 THEN x
    ELSE IF x = -1 \/ y = -1 THEN -1
    ELSE 256 * Or32(x \div 256, y \div 256) + Or8(x % 256, y % 256)

\* a & b and a | b
BitAnd(a, b) == Num(And32(ToInt32(a), ToInt32(b)))
BitOr(a, b) == Num(Or32(ToInt32(a), ToInt32(b)))

\* a << n: for a count c of 0 the value itself; otherwise the low 32 - c
\* bits of a move up by c and the highest of them becomes the sign (for a
\* count of 31 only the lowest bit is left, as the sign)
ShiftLeft(a, n) ==
    LET c == ShiftCount(n)
        x == ToInt32(a)
        low == x % Pow2(31 - c)
        top == (x \div Pow2(31 - c)) % 2
    IN  IF c = 0 THEN Num(x)
        ELSE IF c = 31 THEN Num(IF top = 1 THEN MinInt32 ELSE 0)
        ELSE Num(low * Pow2(c) + (IF top = 1 THEN MinInt32 ELSE 0))

\* a >>> 0: the same bits read as an unsigned number
UnsignedShiftRight0(a) == Unsigned(ToInt32(a))

\* a - b
Minus(a, b) == IF a.nan \/ b.nan THEN NaN ELSE Num(a.v - b.v)

\* a > b: false when either is NaN
GreaterThan(a, b) == ~a.nan /\ ~b.nan /\ a.v > b.v

\* a === b: NaN is equal to nothing
StrictEq(a, b) == ~a.nan /\ ~b.nan /\ a.v = b.v

Digits == <<"0", "1", "2", "3", "4", "5", "6", "7", "8", "9">>

DigitChars == {"0", "1", "2", "3", "4", "5", "6", "7", "8", "9"}

IsDigit(c) == c \in DigitChars

DigitValueOf ==
    ("0" :> 0) @@ ("1" :> 1) @@ ("2" :> 2) @@ ("3" :> 3) @@ ("4" :> 4)
    @@ ("5" :> 5) @@ ("6" :> 6) @@ ("7" :> 7) @@ ("8" :> 8) @@ ("9" :> 9)

DigitValue(c) == DigitValueOf[c]

\* The decimal value of the digits s[i..j], continued from the value acc of
\* the digits before them
RECURSIVE DigitsValueFrom(_, _, _, _)
DigitsValueFrom(s, i, j, acc) ==
    IF i > j THEN acc
    ELSE DigitsValueFrom(s, i + 1, j, 10 * acc + DigitValue(s[i]))

DigitsValue(s) == DigitsValueFrom(s, 1, Len(s), 0)

AllDigits(s) == \A i \in 1..Len(s) : IsDigit(s[i])

\* Number(s) for a string of digits, an optional leading minus sign, or
\* other text: "" is 0, digits are their decimal value, other text is NaN
Number(s) ==
    IF s = <<>> THEN Num(0)
    ELSE IF AllDigits(s) THEN Num(DigitsValue(s))
    ELSE IF s[1] = "-" /\ Len(s) > 1 /\ AllDigits(Tail(s))
         THEN Num(0 - DigitsValue(Tail(s)))
    ELSE NaN

\* The number of digits s starts with, from index i on
RECURSIVE DigitPrefixEnd(_, _)
DigitPrefixEnd(s, i) ==
    IF i > Len(s) \/ ~IsDigit(s[i]) THEN i - 1
    ELSE DigitPrefixEnd(s, i + 1)

\* parseInt(s): an optional sign and the longest prefix of digits; NaN when
\* there is no digit
parseInt(s) ==
    LET neg == s # <<>> /\ s[1] = "-"
        first == IF s # <<>> /\ (s[1] = "-" \/ s[1] = "+") THEN 2 ELSE 1
        last == DigitPrefixEnd(s, first)
    IN  IF last < first THEN NaN
        ELSE Num(IF neg THEN 0 - DigitsValueFrom(s, first, last, 0)
                 ELSE DigitsValueFrom(s, first, last, 0))

\* s.replace(c, ''): the first occurrence of the character is removed
RECURSIVE RemoveFirst(_, _)
RemoveFirst(s, c) ==
    IF s = <<>> THEN <<>>
    ELSE IF s[1] = c THEN Tail(s)
    ELSE <<s[1]>> \o RemoveFirst(Tail(s), c)

\* s.split(c): the pieces between the separators (at least one piece);
\* SplitFrom continues at index i with the piece that starts at index from
RECURSIVE SplitFrom(_, _, _, _)
SplitFrom(s, c, from, i) ==
    IF i > Len(s) THEN <<SubSeq(s, from, Len(s))>>
    ELSE IF s[i] = c
         THEN <<SubSeq(s, from, i - 1)>> \o SplitFrom(s, c, i + 1, i + 1)
    ELSE SplitFrom(s, c, from, i + 1)

Split(s, c) == SplitFrom(s, c, 1, 1)

\* c.toLowerCase() of the letters A..Z; every other character is unchanged
LowerOf ==
    ("A" :> "a") @@ ("B" :> "b") @@ ("C" :> "c") @@ ("D" :> "d")
    @@ ("E" :> "e") @@ ("F" :> "f") @@ ("G" :> "g") @@ ("H" :> "h")
    @@ ("I" :> "i") @@ ("J" :> "j") @@ ("K" :> "k") @@ ("L" :> "l")
    @@ ("M" :> "m") @@ ("N" :> "n") @@ ("O" :> "o") @@ ("P" :> "p")
    @@ ("Q" :> "q") @@ ("R" :> "r") @@ ("S" :> "s") @@ ("T" :> "t")
    @@ ("U" :> "u") @@ ("V" :> "v") @@ ("W" :> "w") @@ ("X" :> "x")
    @@ ("Y" :> "y") @@ ("Z" :> "z")

UpperChars == DOMAIN LowerOf

LowerChar(c) == IF c \in UpperChars THEN LowerOf[c] ELSE c

toLowerCase(s) == [i \in 1..Len(s) |-> LowerChar(s[i])]

----------------------------------------------------------------------------
(* Address matcher *)

\* ip.split('.').map(Number)[i], zero-based; undefined (here NaN: both
\* become 0 under << and |) when the array is shorter
NumberPart(pieces, i) ==
    IF i + 1 <= Len(pieces) THEN Number(pieces[i + 1]) ELSE NaN

ipToNumber(addr) ==
    LET parts == Split(addr, ".")
    IN  BitOr(BitOr(BitOr(ShiftLeft(NumberPart(parts, 0), Num(24)),
                          ShiftLeft(NumberPart(parts, 1), Num(16))),
                    ShiftLeft(NumberPart(parts, 2), Num(8))),
              NumberPart(parts, 3))

\* isIPInNetwork with the shift count taken as maskBits instead of
\* 32 - maskBits
isIPInNetwork_ShiftByMaskBits(addr, net, msk) ==
    IF addr = <<>> \/ net = <<>> \/ msk = <<>> THEN FALSE
    ELSE LET maskBits == parseInt(RemoveFirst(msk, "/"))
             ipNum == ipToNumber(addr)
             networkNum == ipToNumber(net)
             maskNum == UnsignedShiftRight0(ShiftLeft(Num(-1), maskBits))
         IN  StrictEq(BitAnd(ipNum, maskNum), BitAnd(networkNum, maskNum))

isIPInNetwork(addr, net, msk) ==
    IF addr = <<>> \/ net = <<>> \/ msk = <<>> THEN FALSE
    ELSE LET maskBits == parseInt(RemoveFirst(msk, "/"))
             ipNum == ipToNumber(addr)
             networkNum == ipToNumber(net)
             maskNum == UnsignedShiftRight0(
                            ShiftLeft(Num(-1), Minus(Num(32), maskBits)))
         IN  StrictEq(BitAnd(ipNum, maskNum), BitAnd(networkNum, maskNum))

----------------------------------------------------------------------------
(* Path resolver *)

MAX_HOPS == 30

\* The text 'directo'
Directo == <<"d", "i", "r", "e", "c", "t", "o">>

\* parseInt(route.Mascara.replace('/', ''))
MaskOf(route) == parseInt(RemoveFirst(route.Mascara, "/"))

\* reduce that never replaces the first match
ReduceBest_KeepFirst(best, rest) == best

\* reduce with currentMask >= bestMask: the last of equal masks wins
RECURSIVE ReduceBest_LastOfTies(_, _)
ReduceBest_LastOfTies(best, rest) ==
    IF rest = <<>> THEN best
    ELSE ReduceBest_LastOfTies(
             IF ~GreaterThan(MaskOf(best), MaskOf(rest[1]))
             THEN rest[1] ELSE best,
             Tail(rest))

\* matches.reduce((best, current) => currentMask > bestMask ? current : best)
\* continued from an accumulator
RECURSIVE ReduceBest(_, _)
ReduceBest(best, rest) ==
    IF rest = <<>> THEN best
    ELSE ReduceBest(IF GreaterThan(MaskOf(rest[1]), MaskOf(best))
                    THEN rest[1] ELSE best,
                    Tail(rest))

\* findRouteEntry without the filter on the destination
findRouteEntry_AnyDestination(equipmentName, dest, table) ==
    LET OfEquipment(route) == route.Equipo = equipmentName
        equipmentRoutes == SelectSeq(table, OfEquipment)
    IN  IF Len(equipmentRoutes) = 0 THEN <<>>
        ELSE <<ReduceBest(equipmentRoutes[1], Tail(equipmentRoutes))>>

\* The route entry, or null
findRouteEntry(equipmentName, dest, table) ==
    LET OfEquipment(route) == route.Equipo = equipmentName
        equipmentRoutes == SelectSeq(table, OfEquipment)
        Matches(route) == isIPInNetwork(dest, route.IP_Destino, route.Mascara)
        matches == SelectSeq(equipmentRoutes, Matches)
    IN  IF Len(matches) = 0 THEN <<>>
        ELSE <<ReduceBest(matches[1], Tail(matches))>>

\* The route has a Gateway that is a string. route.Gateway.toLowerCase()
\* raises a TypeError when the field is missing (undefined) or is not a
\* string; such a route is a record without the field
HasGateway(route) == "Gateway" \in DOMAIN route

\* findEquipmentByGateway without the exclusion of the current equipment
findEquipmentByGateway_NoExclusion(gateway, table, current) ==
    LET Qualifies(i) ==
            /\ HasGateway(table[i])
            /\ toLowerCase(table[i].Gateway) = Directo
            /\ isIPInNetwork(gateway, table[i].IP_Destino, table[i].Mascara)
        found == SelectSeq([i \in 1..Len(table) |-> i], Qualifies)
    IN  IF Len(found) = 0 THEN <<>>
        ELSE <<table[found[1]].Equipo>>

\* findEquipmentByGateway returning the owner of the last qualifying route
findEquipmentByGateway_LastMatch(gateway, table, current) ==
    LET Qualifies(i) ==
            /\ table[i].Equipo # current
            /\ HasGateway(table[i])
            /\ toLowerCase(table[i].Gateway) = Directo
            /\ isIPInNetwork(gateway, table[i].IP_Destino, table[i].Mascara)
        found == SelectSeq([i \in 1..Len(table) |-> i], Qualifies)
    IN  IF Len(found) = 0 THEN <<>>
        ELSE <<table[found[Len(found)]].Equipo>>

\* findEquipmentByGateway comparing route.Gateway with 'directo' as written
findEquipmentByGateway_CaseSensitive(gateway, table, current) ==
    LET Qualifies(i) ==
            /\ table[i].Equipo # current
            /\ HasGateway(table[i])
            /\ table[i].Gateway = Directo
            /\ isIPInNetwork(gateway, table[i].IP_Destino, table[i].Mascara)
        found == SelectSeq([i \in 1..Len(table) |-> i], Qualifies)
    IN  IF Len(found) = 0 THEN <<>>
        ELSE <<table[found[1]].Equipo>>

\* The for loop returns at the first route, in table order, of another
\* equipment whose gateway is 'directo' (in any case) and whose network
\* contains the gateway; null when there is none
findEquipmentByGateway(gateway, table, current) ==
    LET Qualifies(i) ==
            /\ table[i].Equipo # current
            /\ HasGateway(table[i])
            /\ toLowerCase(table[i].Gateway) = Directo
            /\ isIPInNetwork(gateway, table[i].IP_Destino, table[i].Mascara)
        found == SelectSeq([i \in 1..Len(table) |-> i], Qualifies)
    IN  IF Len(found) = 0 THEN <<>>
        ELSE <<table[found[1]].Equipo>>

\* The for loop of findEquipmentByGateway raises a TypeError: before it
\* returns, it comes to a route of another equipment that has no Gateway
\* string
findEquipmentByGatewayThrows(gateway, table, current) ==
    LET Qualifies(i) ==
            /\ table[i].Equipo # current
            /\ HasGateway(table[i])
            /\ toLowerCase(table[i].Gateway) = Directo
            /\ isIPInNetwork(gateway, table[i].IP_Destino, table[i].Mascara)
    IN  \E i \in 1..Len(table) :
            /\ table[i].Equipo # current
            /\ ~HasGateway(table[i])
            /\ \A j \in 1..(i - 1) : ~Qualifies(j)

\* !x for an equipment name or null returned by findEquipmentByGateway
NoEquipment(x) == IF x = <<>> THEN TRUE ELSE x[1] = ""

\* The error texts, by kind, with the values they are built from
Error(kind, equipo, addr) == [kind |-> kind, equipo |-> equipo, ip |-> addr]

\* The object executeTraceroute returns
TraceResult(success, failure, hs) ==
    [success |-> success, error |-> failure, hops |-> hs,
     sourceEquipment |-> sourceEquipment, sourceIP |-> sourceIP,
     destIP |-> destIP]

Hop(current, route, gateway, next) ==
    [currentEquipment |-> current,
     destNetwork |-> route.IP_Destino \o route.Mascara,
     gateway |-> gateway,
     nextEquipment |-> next]

\* The initial validation without the test of destIP
InvalidParams_IgnoresDest ==
    \/ sourceEquipment = ""
    \/ sourceIP = <<>>
    \/ routingTable = <<>>

\* !sourceEquipment || !sourceIP || !destIP || !routingTable ||
\* routingTable.length === 0: an argument that is missing (undefined, null)
\* is falsy like the empty string, and is drawn as the empty value
InvalidParams ==
    \/ sourceEquipment = ""
    \/ sourceIP = <<>>
    \/ destIP = <<>>
    \/ routingTable = <<>>

\* The test of the source equipment against the first route only
equipmentExists_FirstRecordOnly ==
    routingTable[1].Equipo = sourceEquipment

equipmentExists == \E i \in 1..Len(routingTable) :
                       routingTable[i].Equipo = sourceEquipment

\* The initial validation fails
ReturnInvalid ==
    /\ pc = "validate"
    /\ InvalidParams
    /\ result' = <<TraceResult(FALSE, <<Error("InvalidInput", "", <<>>)>>, <<>>)>>
    /\ pc' = "done"
    /\ UNCHANGED <<matcherVars, uiVars, caller, argVars, hops, visitedEquipment,
                   currentEquipment, hopCount, routeEntry, nextEquipment>>

\* The source equipment is not in the table
ReturnUnknownEquipment ==
    /\ pc = "validate"
    /\ ~InvalidParams
    /\ ~equipmentExists
    /\ result' = <<TraceResult(FALSE,
                     <<Error("UnknownDevice", sourceEquipment, <<>>)>>, <<>>)>>
    /\ pc' = "done"
    /\ UNCHANGED <<matcherVars, uiVars, caller, argVars, hops, visitedEquipment,
                   currentEquipment, hopCount, routeEntry, nextEquipment>>

\* Both checks pass: the for loop is entered with hopCount = 0
EnterLoop ==
    /\ pc = "validate"
    /\ ~InvalidParams
    /\ equipmentExists
    /\ pc' = "loop"
    /\ UNCHANGED <<matcherVars, uiVars, caller, argVars, hops, visitedEquipment,
                   currentEquipment, hopCount, routeEntry, nextEquipment,
                   result>>

\* ReturnLoop naming the source equipment instead of the current one
ReturnLoop_NamesSource ==
    /\ pc = "loop"
    /\ hopCount < MAX_HOPS
    /\ currentEquipment \in visitedEquipment
    /\ result' = <<TraceResult(FALSE,
                     <<Error("RoutingLoop", sourceEquipment, <<>>)>>, hops)>>
    /\ pc' = "done"
    /\ UNCHANGED <<matcherVars, uiVars, caller, argVars, hops, visitedEquipment,
                   currentEquipment, hopCount, routeEntry, nextEquipment>>

\* An iteration finds the current equipment already visited
ReturnLoop ==
    /\ pc = "loop"
    /\ hopCount < MAX_HOPS
    /\ currentEquipment \in visitedEquipment
    /\ result' = <<TraceResult(FALSE,
                     <<Error("RoutingLoop", currentEquipment, <<>>)>>, hops)>>
    /\ pc' = "done"
    /\ UNCHANGED <<matcherVars, uiVars, caller, argVars, hops, visitedEquipment,
                   currentEquipment, hopCount, routeEntry, nextEquipment>>

\* LookupRoute looking up the route entry for the source address
LookupRoute_BySource ==
    /\ pc = "loop"
    /\ hopCount < MAX_HOPS
    /\ currentEquipment \notin visitedEquipment
    /\ visitedEquipment' = visitedEquipment \cup {currentEquipment}
    /\ routeEntry' = findRouteEntry(currentEquipment, sourceIP, routingTable)
    /\ pc' = "route"
    /\ UNCHANGED <<matcherVars, uiVars, caller, argVars, hops, currentEquipment,
                   hopCount, nextEquipment, result>>

\* LookupRoute with the loop condition hopCount <= MAX_HOPS
LookupRoute_OneMoreIteration ==
    /\ pc = "loop"
    /\ hopCount <= MAX_HOPS
    /\ currentEquipment \notin visitedEquipment
    /\ visitedEquipment' = visitedEquipment \cup {currentEquipment}
    /\ routeEntry' = findRouteEntry(currentEquipment, destIP, routingTable)
    /\ pc' = "route"
    /\ UNCHANGED <<matcherVars, uiVars, caller, argVars, hops, currentEquipment,
                   hopCount, nextEquipment, result>>

\* LookupRoute without visitedEquipment.add(currentEquipment)
LookupRoute_NoVisitedAdd ==
    /\ pc = "loop"
    /\ hopCount < MAX_HOPS
    /\ currentEquipment \notin visitedEquipment
    /\ routeEntry' = findRouteEntry(currentEquipment, destIP, routingTable)
    /\ pc' = "route"
    /\ UNCHANGED <<matcherVars, uiVars, caller, argVars, hops, visitedEquipment,
                   currentEquipment, hopCount, nextEquipment, result>>

\* An iteration marks the current equipment visited and looks up its route
\* entry for the destination
LookupRoute ==
    /\ pc = "loop"
    /\ hopCount < MAX_HOPS
    /\ currentEquipment \notin visitedEquipment
    /\ visitedEquipment' = visitedEquipment \cup {currentEquipment}
    /\ routeEntry' = findRouteEntry(currentEquipment, destIP, routingTable)
    /\ pc' = "route"
    /\ UNCHANGED <<matcherVars, uiVars, caller, argVars, hops, currentEquipment, hopCount,
                   nextEquipment, result>>

\* ReturnNoRoute returning an empty list of hops
ReturnNoRoute_DiscardsHops ==
    /\ pc = "route"
    /\ routeEntry = <<>>
    /\ result' = <<TraceResult(FALSE,
                     <<Error("NoRoute", currentEquipment, destIP)>>, <<>>)>>
    /\ pc' = "done"
    /\ UNCHANGED <<matcherVars, uiVars, caller, argVars, hops, visitedEquipment,
                   currentEquipment, hopCount, routeEntry, nextEquipment>>

\* There is no route entry
ReturnNoRoute ==
    /\ pc = "route"
    /\ routeEntry = <<>>
    /\ result' = <<TraceResult(FALSE,
                     <<Error("NoRoute", currentEquipment, destIP)>>, hops)>>
    /\ pc' = "done"
    /\ UNCHANGED <<matcherVars, uiVars, caller, argVars, hops, visitedEquipment,
                   currentEquipment, hopCount, routeEntry, nextEquipment>>

\* ReturnSuccess without the push of the last hop
ReturnSuccess_NoTerminalHop ==
    /\ pc = "route"
    /\ routeEntry # <<>>
    /\ toLowerCase(routeEntry[1].Gateway) = Directo
    /\ result' = <<TraceResult(TRUE, <<>>, hops)>>
    /\ pc' = "done"
    /\ UNCHANGED <<matcherVars, uiVars, caller, argVars, hops, visitedEquipment,
                   currentEquipment, hopCount, routeEntry, nextEquipment>>

\* ReturnSuccess with the current equipment as next equipment of the last hop
ReturnSuccess_NextIsSelf ==
    /\ pc = "route"
    /\ routeEntry # <<>>
    /\ toLowerCase(routeEntry[1].Gateway) = Directo
    /\ hops' = Append(hops, Hop(currentEquipment, routeEntry[1], Directo,
                                <<currentEquipment>>))
    /\ result' = <<TraceResult(TRUE, <<>>, hops')>>
    /\ pc' = "done"
    /\ UNCHANGED <<matcherVars, uiVars, caller, argVars, visitedEquipment, currentEquipment,
                   hopCount, routeEntry, nextEquipment>>

\* The gateway of the route entry is 'directo': the last hop is appended
ReturnSuccess ==
    /\ pc = "route"
    /\ routeEntry # <<>>
    /\ HasGateway(routeEntry[1])
    /\ toLowerCase(routeEntry[1].Gateway) = Directo
    /\ hops' = Append(hops, Hop(currentEquipment, routeEntry[1], Directo, <<>>))
    /\ result' = <<TraceResult(TRUE, <<>>, hops')>>
    /\ pc' = "done"
    /\ UNCHANGED <<matcherVars, uiVars, caller, argVars, visitedEquipment, currentEquipment,
                   hopCount, routeEntry, nextEquipment>>

\* The gateway of the route entry is an address: the equipment connected to
\* it is looked up
ResolveGateway ==
    /\ pc = "route"
    /\ routeEntry # <<>>
    /\ HasGateway(routeEntry[1])
    /\ toLowerCase(routeEntry[1].Gateway) # Directo
    /\ ~findEquipmentByGatewayThrows(routeEntry[1].Gateway, routingTable,
                                     currentEquipment)
    /\ nextEquipment' = findEquipmentByGateway(routeEntry[1].Gateway,
                            routingTable, currentEquipment)
    /\ pc' = "gateway"
    /\ UNCHANGED <<matcherVars, uiVars, caller, argVars, hops, visitedEquipment,
                   currentEquipment, hopCount, routeEntry, result>>

\* A TypeError is raised inside the try block, by routeEntry.Gateway
\* .toLowerCase() or inside findEquipmentByGateway: the catch block returns
\* the internal-error result with the hops made so far
CatchError ==
    /\ pc = "route"
    /\ routeEntry # <<>>
    /\ IF HasGateway(routeEntry[1])
       THEN /\ toLowerCase(routeEntry[1].Gateway) # Directo
            /\ findEquipmentByGatewayThrows(routeEntry[1].Gateway,
                                            routingTable, currentEquipment)
       ELSE TRUE
    /\ result' = <<TraceResult(FALSE,
                     <<Error("InternalError", "", <<>>)>>, hops)>>
    /\ pc' = "done"
    /\ UNCHANGED <<matcherVars, uiVars, caller, argVars, hops, visitedEquipment,
                   currentEquipment, hopCount, routeEntry, nextEquipment>>

\* ReturnUnresolved naming the source equipment instead of the current one
ReturnUnresolved_NamesSource ==
    /\ pc = "gateway"
    /\ NoEquipment(nextEquipment)
    /\ result' = <<TraceResult(FALSE,
                     <<Error("UnresolvedGateway", sourceEquipment,
                             routeEntry[1].Gateway)>>, hops)>>
    /\ pc' = "done"
    /\ UNCHANGED <<matcherVars, uiVars, caller, argVars, hops, visitedEquipment,
                   currentEquipment, hopCount, routeEntry, nextEquipment>>

\* No equipment was found for the gateway
ReturnUnresolved ==
    /\ pc = "gateway"
    /\ NoEquipment(nextEquipment)
    /\ result' = <<TraceResult(FALSE,
                     <<Error("UnresolvedGateway", currentEquipment,
                             routeEntry[1].Gateway)>>, hops)>>
    /\ pc' = "done"
    /\ UNCHANGED <<matcherVars, uiVars, caller, argVars, hops, visitedEquipment,
                   currentEquipment, hopCount, routeEntry, nextEquipment>>

\* Forward without the increment of hopCount
Forward_NoCount ==
    /\ pc = "gateway"
    /\ ~NoEquipment(nextEquipment)
    /\ hops' = Append(hops, Hop(currentEquipment, routeEntry[1],
                                routeEntry[1].Gateway, nextEquipment))
    /\ currentEquipment' = nextEquipment[1]
    /\ pc' = "loop"
    /\ UNCHANGED <<matcherVars, uiVars, caller, argVars, visitedEquipment, hopCount,
                   routeEntry, nextEquipment, result>>

\* Forward appending a hop whose nextEquipment is the current equipment
Forward_HopNamesCurrent ==
    /\ pc = "gateway"
    /\ ~NoEquipment(nextEquipment)
    /\ hops' = Append(hops, Hop(currentEquipment, routeEntry[1],
                                routeEntry[1].Gateway, <<currentEquipment>>))
    /\ currentEquipment' = nextEquipment[1]
    /\ hopCount' = hopCount + 1
    /\ pc' = "loop"
    /\ UNCHANGED <<matcherVars, uiVars, caller, argVars, visitedEquipment, routeEntry,
                   nextEquipment, result>>

\* A hop is appended and the next iteration starts at the next equipment
Forward ==
    /\ pc = "gateway"
    /\ ~NoEquipment(nextEquipment)
    /\ hops' = Append(hops, Hop(currentEquipment, routeEntry[1],
                                routeEntry[1].Gateway, nextEquipment))
    /\ currentEquipment' = nextEquipment[1]
    /\ hopCount' = hopCount + 1
    /\ pc' = "loop"
    /\ UNCHANGED <<matcherVars, uiVars, caller, argVars, visitedEquipment, routeEntry,
                   nextEquipment, result>>

\* The for loop ends: hopCount has reached MAX_HOPS
ReturnHopLimit ==
    /\ pc = "loop"
    /\ hopCount >= MAX_HOPS
    /\ result' = <<TraceResult(FALSE,
                     <<Error("HopLimitExceeded", "", <<>>)>>, hops)>>
    /\ pc' = "done"
    /\ UNCHANGED <<matcherVars, uiVars, caller, argVars, hops, visitedEquipment,
                   currentEquipment, hopCount, routeEntry, nextEquipment>>

\* validateIP: the text matches /^(\d{1,3}\.){3}\d{1,3}$/ (four pieces of one
\* to three digits between dots) and every piece is a number in 0..255
validateIP(addr) ==
    LET parts == Split(addr, ".")
    IN  /\ Len(parts) = 4
        /\ \A i \in 1..4 : Len(parts[i]) \in 1..3 /\ AllDigits(parts[i])
        /\ \A i \in 1..4 : /\ parseInt(parts[i]).v >= 0
                             /\ parseInt(parts[i]).v <= 255

----------------------------------------------------------------------------
(* Text of the inputs the model draws: decimal numbers, dotted quads and
   CIDR masks written out as the strings the code receives *)

RECURSIVE Dec(_)
Dec(n) == IF n < 10 THEN <<Digits[n + 1]>>
          ELSE Dec(n \div 10) \o <<Digits[(n % 10) + 1]>>

Dotted(o) == Dec(o[1]) \o <<".">> \o Dec(o[2]) \o <<".">> \o Dec(o[3])
             \o <<".">> \o Dec(o[4])

Cidr(p) == <<"/">> \o Dec(p)

\* The octets o with bit k of the 32-bit address inverted (bit 0 is the
\* least significant bit of the last octet)
FlipBit(o, k) ==
    LET j == 4 - (k \div 8)
        b == Pow2(k % 8)
    IN  [o EXCEPT ![j] = IF (o[j] \div b) % 2 = 1 THEN o[j] - b ELSE o[j] + b]

----------------------------------------------------------------------------
(* One call of the address matcher on drawn arguments *)

\* Largest prefix length written in a drawn mask ("/0" .. "/MaxPrefix")
MaxPrefix == 33

BaseOctets == <<192, 168, 1, 50>>

\* The base address, the base address with each single bit inverted, and two
\* addresses with a first octet below 128
AddressOctets ==
    {BaseOctets, <<10, 0, 1, 2>>, <<0, 0, 0, 0>>}
        \cup {FlipBit(BaseOctets, k) : k \in 0..31}

NetworkOctets ==
    {BaseOctets, <<10, 0, 1, 2>>, <<0, 0, 0, 0>>, <<192, 168, 0, 0>>,
     FlipBit(BaseOctets, 31)}

\* The caller before its first call: it holds the table it passes and no
\* returned object
FirstCall == [table |-> routingTable, returned |-> <<>>]

MatcherIdle ==
    /\ routingTable = <<>>
    /\ sourceEquipment = ""
    /\ sourceIP = <<>>
    /\ destIP = <<>>
    /\ hops = <<>>
    /\ visitedEquipment = {}
    /\ currentEquipment = ""
    /\ hopCount = 0
    /\ routeEntry = <<>>
    /\ nextEquipment = <<>>
    /\ pc = "idle"
    /\ result = <<>>
    /\ caller = FirstCall

\* NetworkDiagram has drawn nothing: useNodesState([]), useEdgesState([])
DiagramUnused ==
    /\ nodes = <<>>
    /\ edges = <<>>

STORAGE_KEY == "traceroute_routing_data"
STORAGE_HISTORY_KEY == "traceroute_data_history"

\* localStorage holds neither item, and nothing has been saved
StorageUnused ==
    /\ localStorage = [key \in {STORAGE_KEY, STORAGE_HISTORY_KEY} |-> <<>>]
    /\ now = 0
    /\ thrown = 0
    /\ saved = <<>>

\* The files a user may hand to FileUploader, by name
FileNames == {"tabla.csv", "vacia.csv", "ilegible.csv", "notas.txt"}

\* App as mounted (with nothing stored, the first effect sets nothing): no
\* table, no result, no error; no file is being read
AppMounted ==
    /\ routingData = <<>>
    /\ traceResult = <<>>
    /\ error = <<>>
    /\ editMode = FALSE
    /\ pending = <<>>
    /\ parsing = {}
    /\ lastLoad = <<>>

\* useState(null), useState({Equipo: '', IP_Destino: '', ...})
EmptyForm == [Equipo |-> "", IP_Destino |-> <<>>, Mascara |-> <<>>,
              Gateway |-> <<>>]

EditorClosed ==
    /\ editingIndex = <<>>
    /\ editForm = EmptyForm
    /\ opened = <<>>

UiUnused ==
    /\ DiagramUnused
    /\ StorageUnused
    /\ AppMounted
    /\ EditorClosed

MatcherInit ==
    /\ ip \in {Dotted(o) : o \in AddressOctets}
    /\ network \in {Dotted(o) : o \in NetworkOctets}
    /\ mask \in {Cidr(p) : p \in 0..MaxPrefix}
    /\ inNetwork = <<>>
    /\ MatcherIdle
    /\ UiUnused

\* isIPInNetwork(ip, network, mask) is called and returns
Match ==
    /\ inNetwork = <<>>
    /\ inNetwork' = <<isIPInNetwork(ip, network, mask)>>
    /\ UNCHANGED <<ip, network, mask, traceVars, uiVars>>

MatcherNext == Match

MatcherSpec == MatcherInit /\ [][MatcherNext]_vars

----------------------------------------------------------------------------
(* One call of the address matcher on texts that need not be addresses or
   prefix lengths *)

\* Texts that are not four octets in 0..255: other text, three and five
\* pieces, a piece that is not a number, an octet of 256, an empty piece
MalformedTexts ==
    {<<"a", "b", "c">>,
     Dec(192) \o <<".">> \o Dec(168) \o <<".">> \o Dec(1),
     Dotted(BaseOctets) \o <<".">> \o Dec(7),
     Dec(192) \o <<".">> \o Dec(168) \o <<".">> \o Dec(1) \o <<".", "x">>,
     Dotted(<<192, 168, 256, 50>>),
     Dec(192) \o <<".", ".">> \o Dec(1) \o <<".">> \o Dec(50)}

WellFormedOctets ==
    {BaseOctets, <<0, 0, 0, 0>>, <<192, 168, 1, 0>>, <<192, 169, 0, 50>>,
     <<192, 0, 1, 50>>}

\* The mask "/-p"
NegativeCidr(p) == <<"/", "-">> \o Dec(p)

MalformedInit ==
    /\ ip \in MalformedTexts \cup {Dotted(o) : o \in WellFormedOctets}
    /\ network \in MalformedTexts \cup {Dotted(o) : o \in WellFormedOctets}
    /\ mask \in {Cidr(p) : p \in 0..MaxPrefix}
                 \cup {NegativeCidr(p) : p \in 1..(MaxPrefix - 32)}
    /\ inNetwork = <<>>
    /\ MatcherIdle
    /\ UiUnused

MalformedSpec == MalformedInit /\ [][MatcherNext]_vars

----------------------------------------------------------------------------
(* Calls of executeTraceroute on drawn arguments *)

\* Longest table drawn from RouteUniverse
MaxRoutes == 3

\* Chains of equipment are drawn with 1..ShortChain and with
\* MAX_HOPS - 1 .. MaxChain pieces of equipment
ShortChain == 3
MaxChain == 32

Route(equipo, net, p, gateway) ==
    [Equipo |-> equipo, IP_Destino |-> Dotted(net), Mascara |-> Cidr(p),
     Gateway |-> gateway]

DestOctets == <<192, 168, 1, 50>>
SourceOctets == <<192, 168, 1, 1>>

\* Every route drawn for Spec has its four fields, all strings, so no
\* TypeError is raised there; CatchError is part of LooseNext below.

\* Routes of two pieces of equipment A and B around the destination: routes
\* of different and of equal prefix length for it, gateways that another
\* equipment, only the equipment itself, or nobody is connected to, and
\* 'directo' in two spellings
RouteUniverse ==
    {Route("A", <<192, 168, 1, 0>>, 24, Dotted(<<10, 0, 1, 2>>)),
     Route("A", <<192, 168, 0, 0>>, 16, Dotted(<<10, 0, 2, 2>>)),
     Route("A", <<192, 168, 1, 0>>, 24, Dotted(<<10, 0, 2, 2>>)),
     Route("A", <<10, 0, 1, 0>>, 24, Directo),
     Route("B", <<10, 0, 1, 0>>, 24, Directo),
     Route("B", <<192, 168, 1, 0>>, 24, Directo),
     Route("B", <<192, 168, 0, 0>>, 16, Dotted(<<10, 0, 1, 1>>)),
     Route("B", <<10, 0, 2, 0>>, 24, <<"D", "i", "r", "e", "c", "t", "o">>),
     Route("A", <<192, 168, 0, 0>>, 16, Directo)}

\* Tables of up to MaxRoutes different routes of the universe, in every order
SmallTables ==
    UNION {{t \in [1..n -> RouteUniverse] :
                \A i, j \in 1..n : i # j => t[i] # t[j]} : n \in 0..MaxRoutes}

ChainNames ==
    <<"R1", "R2", "R3", "R4", "R5", "R6", "R7", "R8", "R9", "R10",
      "R11", "R12", "R13", "R14", "R15", "R16", "R17", "R18", "R19", "R20",
      "R21", "R22", "R23", "R24", "R25", "R26", "R27", "R28", "R29", "R30",
      "R31", "R32", "R33", "R34", "R35", "R36", "R37", "R38", "R39", "R40">>

\* Equipment i of a chain forwards the destination to a gateway on link i,
\* which it and equipment i + 1 are connected to
RECURSIVE ChainLinks(_)
ChainLinks(n) ==
    IF n <= 1 THEN <<>>
    ELSE ChainLinks(n - 1) \o
         <<Route(ChainNames[n - 1], <<10, 0, n - 1, 0>>, 24, Directo),
           Route(ChainNames[n - 1], <<192, 168, 1, 0>>, 24,
                 Dotted(<<10, 0, n - 1, 2>>)),
           Route(ChainNames[n], <<10, 0, n - 1, 0>>, 24, Directo)>>

\* What the last equipment of a chain does with the destination: it is
\* connected to it ("direct"), has no route ("none"), forwards it to a gateway
\* nobody is connected to ("unresolved"), or forwards it to a gateway on a
\* network only equipment k is connected to (<<"back", k>>, k in 1..n)
ChainEnd(n, end) ==
    IF end[1] = "direct"
    THEN <<Route(ChainNames[n], <<192, 168, 1, 0>>, 24, Directo)>>
    ELSE IF end[1] = "none"
    THEN <<Route(ChainNames[n], <<172, 16, 0, 0>>, 16, Directo)>>
    ELSE IF end[1] = "unresolved"
    THEN <<Route(ChainNames[n], <<192, 168, 1, 0>>, 24,
                 Dotted(<<10, 200, 0, 2>>))>>
    ELSE <<Route(ChainNames[end[2]], <<10, 100, end[2], 0>>, 24, Directo),
           Route(ChainNames[n], <<192, 168, 1, 0>>, 24,
                 Dotted(<<10, 100, end[2], 2>>))>>

ChainLengths == (1..ShortChain) \cup ((MAX_HOPS - 1)..MaxChain)

ChainTables ==
    UNION {{ChainLinks(n) \o ChainEnd(n, end) :
                end \in {<<"direct">>, <<"none">>, <<"unresolved">>}
                            \cup {<<"back", k>> :
                                      k \in {1, 2, n - 1, n} \cap (1..n)}} :
           n \in ChainLengths}

\* The arguments of one call
Call(equipo, src, dst, table) ==
    [sourceEquipment |-> equipo, sourceIP |-> src, destIP |-> dst,
     routingTable |-> table]

\* The table and the first case of the README
ReadmeTable ==
    <<Route("RouterA", <<10, 0, 1, 0>>, 24, Directo),
      Route("RouterA", <<192, 168, 1, 0>>, 24, Dotted(<<10, 0, 1, 2>>)),
      Route("RouterB", <<10, 0, 1, 0>>, 24, Directo),
      Route("RouterB", <<192, 168, 1, 0>>, 24, Directo)>>

ReadmeCall ==
    Call("RouterA", Dotted(<<192, 168, 1, 1>>), Dotted(<<192, 168, 1, 50>>),
         ReadmeTable)

\* A gateway of A that B and C are both connected to, on networks of
\* different prefix lengths; only B is connected to the destination
SharedGatewayRoutes ==
    {Route("A", <<192, 168, 1, 0>>, 24, Dotted(<<10, 0, 1, 2>>)),
     Route("B", <<10, 0, 1, 0>>, 24, Directo),
     Route("C", <<10, 0, 0, 0>>, 16, Directo),
     Route("B", <<192, 168, 1, 0>>, 24, Directo)}

\* The tables of all these routes, in every order
SharedGatewayTables ==
    {t \in [1..Cardinality(SharedGatewayRoutes) -> SharedGatewayRoutes] :
        \A i, j \in DOMAIN t : i # j => t[i] # t[j]}

Calls ==
    {Call(e, Dotted(SourceOctets), Dotted(DestOctets), t) :
         e \in {"A", "B"}, t \in SmallTables}
    \cup {ReadmeCall}
    \cup {Call("A", Dotted(SourceOctets), Dotted(DestOctets), t) :
              t \in SharedGatewayTables}
    \cup {Call("R1", Dotted(SourceOctets), Dotted(DestOctets), t) :
              t \in ChainTables}
    \cup {Call(e, src, dst, t) :
              e \in {"", "A", "Z"},
              src \in {<<>>, Dotted(SourceOctets)},
              dst \in {<<>>, Dotted(DestOctets)},
              t \in {t \in SmallTables : Len(t) <= 1}}

MatcherUnused ==
    /\ ip = <<>>
    /\ network = <<>>
    /\ mask = <<>>
    /\ inNetwork = <<>>

Init ==
    /\ \E c \in Calls :
          /\ sourceEquipment = c.sourceEquipment
          /\ sourceIP = c.sourceIP
          /\ destIP = c.destIP
          /\ routingTable = c.routingTable
    /\ hops = <<>>
    /\ visitedEquipment = {}
    /\ currentEquipment = sourceEquipment
    /\ hopCount = 0
    /\ routeEntry = <<>>
    /\ nextEquipment = <<>>
    /\ pc = "validate"
    /\ result = <<>>
    /\ caller = FirstCall
    /\ MatcherUnused
    /\ UiUnused

Next ==
    \/ ReturnInvalid
    \/ ReturnUnknownEquipment
    \/ EnterLoop
    \/ ReturnLoop
    \/ LookupRoute
    \/ ReturnNoRoute
    \/ ReturnSuccess
    \/ ResolveGateway
    \/ ReturnUnresolved
    \/ Forward
    \/ ReturnHopLimit

Spec == Init /\ [][Next]_vars

\* The calls on the chains of equipment (which end at the destination, at
\* a failure, in a loop or at the hop limit) and on tables of at most one
\* route
FairCalls ==
    {c \in Calls : c.sourceEquipment = "R1" \/ Len(c.routingTable) <= 1}

FairInit ==
    /\ \E c \in FairCalls :
          /\ sourceEquipment = c.sourceEquipment
          /\ sourceIP = c.sourceIP
          /\ destIP = c.destIP
          /\ routingTable = c.routingTable
    /\ hops = <<>>
    /\ visitedEquipment = {}
    /\ currentEquipment = sourceEquipment
    /\ hopCount = 0
    /\ routeEntry = <<>>
    /\ nextEquipment = <<>>
    /\ pc = "validate"
    /\ result = <<>>
    /\ caller = FirstCall
    /\ MatcherUnused
    /\ UiUnused

\* executeTraceroute is synchronous and runs on one thread without
\* suspension points: a call that can take a step takes it
FairSpec == FairInit /\ [][Next]_vars /\ WF_vars(Next)

----------------------------------------------------------------------------
(* Calls of executeTraceroute repeated by the caller on the same table *)

\* Calls the caller makes after its first one
MaxRepeats == 1

\* Longest table drawn from RepeatUniverse
MaxRepeatRoutes == 2

\* A second source address, on the network A and B are connected to
SourceTexts == {Dotted(SourceOctets), Dotted(<<10, 0, 1, 7>>)}

RepeatUniverse ==
    {Route("A", <<192, 168, 1, 0>>, 24, Dotted(<<10, 0, 1, 2>>)),
     Route("A", <<10, 0, 1, 0>>, 24, Directo),
     Route("B", <<10, 0, 1, 0>>, 24, Directo),
     Route("B", <<192, 168, 1, 0>>, 24, Directo),
     Route("B", <<192, 168, 0, 0>>, 16, Dotted(<<10, 0, 1, 1>>))}

RepeatTables ==
    UNION {{t \in [1..n -> RepeatUniverse] :
                \A i, j \in 1..n : i # j => t[i] # t[j]} :
           n \in 0..MaxRepeatRoutes}

FewChainTables ==
    {ChainLinks(n) \o ChainEnd(n, end) :
         n \in {ShortChain, MAX_HOPS + 1},
         end \in {<<"direct">>, <<"unresolved">>, <<"back", 1>>}}

RepeatCalls ==
    {Call(e, Dotted(SourceOctets), Dotted(DestOctets), t) :
         e \in {"", "A", "B"}, t \in RepeatTables}
    \cup {Call("R1", Dotted(SourceOctets), Dotted(DestOctets), t) :
              t \in FewChainTables}

RepeatInit ==
    /\ \E c \in RepeatCalls :
          /\ sourceEquipment = c.sourceEquipment
          /\ sourceIP = c.sourceIP
          /\ destIP = c.destIP
          /\ routingTable = c.routingTable
    /\ hops = <<>>
    /\ visitedEquipment = {}
    /\ currentEquipment = sourceEquipment
    /\ hopCount = 0
    /\ routeEntry = <<>>
    /\ nextEquipment = <<>>
    /\ pc = "validate"
    /\ result = <<>>
    /\ caller = FirstCall
    /\ MatcherUnused
    /\ UiUnused

\* CallAgain with the set of visited equipment kept from the call before, as
\* if it were declared outside the function
CallAgain_KeepsVisited ==
    /\ pc = "done"
    /\ Len(caller.returned) < MaxRepeats
    /\ \E src \in SourceTexts : sourceIP' = src
    /\ caller' = [caller EXCEPT !.returned = Append(@, result[1])]
    /\ hops' = <<>>
    /\ currentEquipment' = sourceEquipment
    /\ hopCount' = 0
    /\ routeEntry' = <<>>
    /\ nextEquipment' = <<>>
    /\ pc' = "validate"
    /\ result' = <<>>
    /\ UNCHANGED <<matcherVars, uiVars, routingTable, sourceEquipment, destIP,
                   visitedEquipment>>

\* The caller keeps the returned object and calls executeTraceroute again
\* with the same source equipment, destination and table object and with some
\* source address: the call starts with its own hops [], new Set and
\* currentEquipment = sourceEquipment
CallAgain ==
    /\ pc = "done"
    /\ Len(caller.returned) < MaxRepeats
    /\ \E src \in SourceTexts : sourceIP' = src
    /\ caller' = [caller EXCEPT !.returned = Append(@, result[1])]
    /\ hops' = <<>>
    /\ visitedEquipment' = {}
    /\ currentEquipment' = sourceEquipment
    /\ hopCount' = 0
    /\ routeEntry' = <<>>
    /\ nextEquipment' = <<>>
    /\ pc' = "validate"
    /\ result' = <<>>
    /\ UNCHANGED <<matcherVars, uiVars, routingTable, sourceEquipment, destIP>>

RepeatNext ==
    \/ Next
    \/ CallAgain

RepeatSpec == RepeatInit /\ [][RepeatNext]_vars

----------------------------------------------------------------------------
(* NetworkDiagram: the effect that draws the table and the trace result *)

\* The helper isIPInNetwork of the component (the address numbers are
\* computed in place, and nothing is caught)
diagramIsIPInNetwork(addr, net, msk) ==
    IF addr = <<>> \/ net = <<>> \/ msk = <<>> THEN FALSE
    ELSE LET maskBits == parseInt(RemoveFirst(msk, "/"))
             ipParts == Split(addr, ".")
             networkParts == Split(net, ".")
             ipNum ==
                 BitOr(BitOr(BitOr(ShiftLeft(NumberPart(ipParts, 0), Num(24)),
                                   ShiftLeft(NumberPart(ipParts, 1), Num(16))),
                             ShiftLeft(NumberPart(ipParts, 2), Num(8))),
                       NumberPart(ipParts, 3))
             networkNum ==
                 BitOr(BitOr(BitOr(
                           ShiftLeft(NumberPart(networkParts, 0), Num(24)),
                           ShiftLeft(NumberPart(networkParts, 1), Num(16))),
                           ShiftLeft(NumberPart(networkParts, 2), Num(8))),
                       NumberPart(networkParts, 3))
             maskNum == UnsignedShiftRight0(
                            ShiftLeft(Num(-1), Minus(Num(32), maskBits)))
         IN  StrictEq(BitAnd(ipNum, maskNum), BitAnd(networkNum, maskNum))

\* routingData.find(r => r.IP_Destino && route.Gateway &&
\*     r.Gateway === 'directo' && isIPInNetwork(route.Gateway, ...)):
\* the first such record of the table (of any equipment), or nothing
targetEquipo(route, data) ==
    LET Found(i) ==
            /\ data[i].IP_Destino # <<>>
            /\ HasGateway(route)
            /\ route.Gateway # <<>>
            /\ HasGateway(data[i])
            /\ data[i].Gateway = Directo
            /\ diagramIsIPInNetwork(route.Gateway, data[i].IP_Destino,
                                    data[i].Mascara)
        found == SelectSeq([i \in 1..Len(data) |-> i], Found)
    IN  IF Len(found) = 0 THEN <<>> ELSE <<data[found[1]]>>

\* `${a}-${b}`: the equipment names of the tables drawn here contain no '-',
\* so the text determines the pair
EdgeId(a, b) == <<a, b>>

\* The target found for each record of the table
targets(data) ==
    [i \in 1..Len(data) |-> targetEquipo(data[i], data)]

\* routingData.forEach(...): edgesMap after the first pass, given the target
\* of each record. A record whose Gateway is not the text 'directo' and for
\* which a target is found sets an edge unless the map has its edgeId or its
\* reverseEdgeId already, which is when an earlier such record had one of
\* the two as its edgeId
edgesToTargets(data, target) ==
    LET Asks(i) ==
            /\ HasGateway(data[i]) => data[i].Gateway # Directo
            /\ target[i] # <<>>
        edgeId(i) == EdgeId(data[i].Equipo, target[i][1].Equipo)
        reverseEdgeId(i) == EdgeId(target[i][1].Equipo, data[i].Equipo)
        Sets(i) ==
            /\ Asks(i)
            /\ \A j \in 1..(i - 1) :
                  Asks(j) => edgeId(j) \notin {edgeId(i), reverseEdgeId(i)}
        set == SelectSeq([i \in 1..Len(data) |-> i], Sets)
    IN  [k \in 1..Len(set) |->
            [id |-> edgeId(set[k]),
             source |-> data[set[k]].Equipo,
             target |-> target[set[k]][1].Equipo,
             animated |-> FALSE]]

\* (the targets are computed once and bound as a value)
edgesMap(data) ==
    CHOOSE map \in {edgesToTargets(data, target) :
                        target \in {targets(data)}} : TRUE

HasEdge(map, id) == \E k \in 1..Len(map) : map[k].id = id

\* traceResult.hops.forEach(...): the edge of the map a hop highlights is the
\* one with its edgeId, or else the one with its reverseEdgeId
Highlights(hop, map, id) ==
    /\ hop.nextEquipment # <<>>
    /\ hop.nextEquipment[1] # ""
    /\ LET edgeId == EdgeId(hop.currentEquipment, hop.nextEquipment[1])
           reverseEdgeId == EdgeId(hop.nextEquipment[1], hop.currentEquipment)
       IN  IF HasEdge(map, edgeId) THEN id = edgeId
           ELSE HasEdge(map, reverseEdgeId) /\ id = reverseEdgeId

\* The edges of the map after the second pass over the hops
highlighted(map, hs) ==
    [k \in 1..Len(map) |->
        [map[k] EXCEPT !.animated =
            \E h \in 1..Len(hs) : Highlights(hs[h], map, map[k].id)]]

\* The edges drawn for a table and the hops of a trace result (the map of
\* the first pass is computed once and bound as a value)
DrawnEdges(data, hs) ==
    CHOOSE drawn \in {highlighted(map, hs) :
                          map \in {edgesMap(data)}} : TRUE

\* [...new Set(routingData.map(r => r.Equipo))]: the equipment in the order
\* of their first record
equipos(data) ==
    LET First(i) == \A j \in 1..(i - 1) :
                        data[j].Equipo # data[i].Equipo
        firsts == SelectSeq([i \in 1..Len(data) |-> i], First)
    IN  [k \in 1..Len(firsts) |-> data[firsts[k]].Equipo]

\* One node per equipment, marked when a hop is at it or leads to it
nodesOf(names, hs) ==
    [k \in 1..Len(names) |->
        [id |-> names[k],
         isInPath |-> \E h \in 1..Len(hs) :
                         \/ hs[h].currentEquipment = names[k]
                         \/ hs[h].nextEquipment = <<names[k]>>]]

\* The nodes drawn for a table and the hops of a trace result
DrawnNodes(data, hs) ==
    CHOOSE drawn \in {nodesOf(names, hs) :
                          names \in {equipos(data)}} : TRUE

\* The effect of NetworkDiagram with the table and the result of the call
\* that has returned as its routingData and traceResult
RenderDiagram ==
    /\ pc = "done"
    /\ nodes' = DrawnNodes(routingTable, result[1].hops)
    /\ edges' = DrawnEdges(routingTable, result[1].hops)
    /\ UNCHANGED <<matcherVars, traceVars, storageVars, appVars, editorVars>>

DiagramNext ==
    \/ Next
    \/ RenderDiagram

DiagramSpec == Init /\ [][DiagramNext]_vars

----------------------------------------------------------------------------
(* utils/localStorage: the saved table and the history of saves *)

MAX_HISTORY_ITEMS == 10

\* Calls of saveRoutingData made in one run, and calls of setItem that raise
\* (the quota is exceeded) in one run
MaxSaves == 11
MaxThrown == 1

\* Rows of a table, as saveRoutingData receives them
Row(n) == Route("A", <<10, 0, n, 0>>, 24, Directo)

\* The tables saved: an empty one and one of 4 rows
SavedTables ==
    {<<<<>>>>, <<<<Row(1), Row(2), Row(3), Row(4)>>>>}

\* array.slice(0, n)
slice0(array, n) == SubSeq(array, 1, IF Len(array) < n THEN Len(array) ELSE n)

\* The entry addToHistory makes of a saved object; data is <<>> for null and
\* <<table>> otherwise (data?.length || 0, data?.slice(0, 3) || [])
HistoryEntry(dataObject) ==
    [timestamp |-> dataObject.timestamp,
     itemCount |-> IF dataObject.data = <<>> THEN 0
                   ELSE Len(dataObject.data[1]),
     preview |-> IF dataObject.data = <<>> THEN <<>>
                 ELSE slice0(dataObject.data[1], 3)]

\* getHistory: the stored history, or [] when there is none. (The items are
\* stored as the values JSON.parse gives back for the stored text: records
\* of texts, numbers and arrays are read back as written.)
getHistory ==
    IF localStorage[STORAGE_HISTORY_KEY] = <<>> THEN <<>>
    ELSE localStorage[STORAGE_HISTORY_KEY][1]

\* addToHistory: the history with the new entry first, cut to
\* MAX_HISTORY_ITEMS entries
trimmedHistory(dataObject) ==
    slice0(<<HistoryEntry(dataObject)>> \o getHistory, MAX_HISTORY_ITEMS)

\* saveRoutingData(data): setItem of the data raises (false is returned and
\* nothing is stored), or the data is stored and addToHistory runs, whose
\* setItem of the history raises (the exception is caught inside
\* addToHistory) or stores the trimmed history; true is returned in both
\* cases
saveRoutingDataOf(data) ==
    \E dataThrows, historyThrows \in BOOLEAN :
        LET dataToSave == [data |-> data, timestamp |-> now + 1,
                           version |-> "1.0"]
        IN  /\ (dataThrows \/ historyThrows) => thrown < MaxThrown
            /\ ~(dataThrows /\ historyThrows)
            /\ now' = now + 1
            /\ thrown' = IF dataThrows \/ historyThrows THEN thrown + 1
                          ELSE thrown
            /\ IF dataThrows
               THEN UNCHANGED <<localStorage, saved>>
               ELSE /\ saved' = <<dataToSave>> \o saved
                    /\ localStorage' =
                          [localStorage EXCEPT
                             ![STORAGE_KEY] = <<dataToSave>>,
                             ![STORAGE_HISTORY_KEY] =
                                 IF historyThrows THEN @
                                 ELSE <<trimmedHistory(dataToSave)>>]

saveRoutingData ==
    /\ now < MaxSaves
    /\ \E data \in SavedTables : saveRoutingDataOf(data)
    /\ UNCHANGED <<matcherVars, traceVars, diagramVars, appVars, editorVars>>

\* clearRoutingData: the saved table is removed
clearRoutingData ==
    /\ localStorage[STORAGE_KEY] # <<>>
    /\ localStorage' = [localStorage EXCEPT ![STORAGE_KEY] = <<>>]
    /\ UNCHANGED <<matcherVars, traceVars, diagramVars, appVars, editorVars,
                   now, thrown, saved>>

\* clearHistory: the history is removed
clearHistory ==
    /\ localStorage[STORAGE_HISTORY_KEY] # <<>>
    /\ localStorage' = [localStorage EXCEPT ![STORAGE_HISTORY_KEY] = <<>>]
    /\ saved' = <<>>
    /\ UNCHANGED <<matcherVars, traceVars, diagramVars, appVars, editorVars,
                   now, thrown>>

StorageInit ==
    /\ MatcherUnused
    /\ MatcherIdle
    /\ UiUnused

StorageNext ==
    \/ saveRoutingData
    \/ clearRoutingData
    \/ clearHistory

StorageSpec == StorageInit /\ [][StorageNext]_vars

----------------------------------------------------------------------------
(* executeTraceroute as the function of its arguments that App calls *)

\* What a call returns besides its arguments
Outcome(success, failure, hs) ==
    [success |-> success, error |-> failure, hops |-> hs]

RECURSIVE iterations(_, _, _, _, _, _)

\* The rest of an iteration once findEquipmentByGateway has returned next,
\* and the iterations after it
afterGateway(next, entry, current, visited, hs, count, dst, table) ==
    IF NoEquipment(next)
    THEN Outcome(FALSE,
                 <<Error("UnresolvedGateway", current, entry[1].Gateway)>>,
                 hs)
    ELSE iterations(next[1], visited \cup {current},
                    Append(hs, Hop(current, entry[1], entry[1].Gateway,
                                   next)),
                    count + 1, dst, table)

\* The rest of an iteration once findRouteEntry has returned entry, and the
\* iterations after it
afterRouteEntry(entry, current, visited, hs, count, dst, table) ==
    IF entry = <<>>
    THEN Outcome(FALSE, <<Error("NoRoute", current, dst)>>, hs)
    ELSE IF ~HasGateway(entry[1])
    THEN Outcome(FALSE, <<Error("InternalError", "", <<>>)>>, hs)
    ELSE IF toLowerCase(entry[1].Gateway) = Directo
    THEN Outcome(TRUE, <<>>,
                 Append(hs, Hop(current, entry[1], Directo, <<>>)))
    ELSE IF findEquipmentByGatewayThrows(entry[1].Gateway, table, current)
    THEN Outcome(FALSE, <<Error("InternalError", "", <<>>)>>, hs)
    ELSE CHOOSE outcome \in
             {afterGateway(next, entry, current, visited, hs, count, dst,
                           table) :
                  next \in {findEquipmentByGateway(entry[1].Gateway, table,
                                                   current)}} : TRUE

\* The iterations of the for loop from the one at equipment current, with
\* the equipment visited, the hops pushed and hopCount so far (what
\* findRouteEntry and findEquipmentByGateway return is computed once and
\* bound as a value)
iterations(current, visited, hs, count, dst, table) ==
    IF count >= MAX_HOPS
    THEN Outcome(FALSE, <<Error("HopLimitExceeded", "", <<>>)>>, hs)
    ELSE IF current \in visited
    THEN Outcome(FALSE, <<Error("RoutingLoop", current, <<>>)>>, hs)
    ELSE CHOOSE outcome \in
             {afterRouteEntry(entry, current, visited, hs, count, dst,
                              table) :
                  entry \in {findRouteEntry(current, dst, table)}} : TRUE

\* executeTraceroute(sourceEquipment, sourceIP, destIP, routingTable)
executeTraceroute(equipo, src, dst, table) ==
    LET outcome ==
            IF equipo = "" \/ src = <<>> \/ dst = <<>> \/ table = <<>>
            THEN Outcome(FALSE, <<Error("InvalidInput", "", <<>>)>>, <<>>)
            ELSE IF ~\E i \in 1..Len(table) : table[i].Equipo = equipo
            THEN Outcome(FALSE, <<Error("UnknownDevice", equipo, <<>>)>>,
                         <<>>)
            ELSE iterations(equipo, {}, <<>>, 0, dst, table)
    IN  [success |-> outcome.success, error |-> outcome.error,
         hops |-> outcome.hops, sourceEquipment |-> equipo,
         sourceIP |-> src, destIP |-> dst]

\* The steps of a call end with the object the function gives
StepsAgree ==
    pc = "done" =>
        result[1] = executeTraceroute(sourceEquipment, sourceIP, destIP,
                                      routingTable)

----------------------------------------------------------------------------
(* App, FileUploader, DataManager and RoutingTableEditor *)

\* Saves made by App in one run
MaxAppSaves == 3

\* The texts App shows for a file that could not be loaded
FileError(kind) == Error(kind, "", <<>>)

\* file.name.endsWith('.csv'), for the names handed over
EndsWithCsv(f) == f \in {"tabla.csv", "vacia.csv", "ilegible.csv"}

\* A row of a file whose Gateway column is empty
IncompleteRow ==
    [Equipo |-> "RouterC", IP_Destino |-> Dotted(<<10, 0, 3, 0>>),
     Mascara |-> Cidr(24), Gateway |-> <<>>]

\* results.data: the rows Papa.parse reads from each file
FileRows(f) ==
    IF f = "tabla.csv" THEN ReadmeTable \o <<IncompleteRow>> ELSE <<>>

\* text.trim(): the text without the blanks at its ends
RECURSIVE trim(_)
trim(text) ==
    IF text = <<>> THEN text
    ELSE IF Head(text) = " " THEN trim(Tail(text))
    ELSE IF text[Len(text)] = " " THEN trim(SubSeq(text, 1, Len(text) - 1))
    ELSE text

\* validateCSVStructure: what it throws (nothing when the rows pass)
validateCSVStructure(data) ==
    IF Len(data) = 0 THEN <<FileError("EmptyCsv")>>
    ELSE IF ~({"Equipo", "IP_Destino", "Mascara", "Gateway"}
                  \subseteq DOMAIN data[1])
    THEN <<FileError("MissingColumns")>>
    ELSE <<>>

\* cleanCSVData: the rows with the four columns present and not blank
cleanCSVData(data) ==
    LET Complete(row) ==
            /\ {"Equipo", "IP_Destino", "Mascara", "Gateway"}
                   \subseteq DOMAIN row
            /\ row.Equipo # ""
            /\ trim(row.IP_Destino) # <<>>
            /\ trim(row.Mascara) # <<>>
            /\ trim(row.Gateway) # <<>>
    IN  SelectSeq(data, Complete)

\* The effect on [routingData] after a commit that set it to newData:
\* saveRoutingData(routingData) when it is not empty
Persist(newData) ==
    IF Len(newData) > 0
    THEN now < MaxAppSaves /\ saveRoutingDataOf(<<newData>>)
    ELSE UNCHANGED storageVars

\* The record of a load that has completed
Loaded(rows) == <<[ok |-> TRUE, rows |-> rows, message |-> <<>>]>>
Failed(message) == <<[ok |-> FALSE, rows |-> <<>>, message |-> message]>>

\* handleFileError(errorMessage)
handleFileError(errorMessage) ==
    /\ error' = errorMessage
    /\ routingData' = <<>>
    /\ traceResult' = <<>>

\* Deferred callbacks waiting at one time
MaxPending == 2

\* processFile(file): a file that is not a .csv is refused at once through
\* onError; for a .csv, Papa.parse starts
processFile ==
    /\ \E f \in FileNames \ parsing :
          IF EndsWithCsv(f)
          THEN /\ parsing' = parsing \cup {f}
               /\ UNCHANGED <<routingData, traceResult, error, lastLoad>>
          ELSE /\ handleFileError(<<FileError("NotCsv")>>)
               /\ lastLoad' = Failed(<<FileError("NotCsv")>>)
               /\ UNCHANGED parsing
    /\ UNCHANGED <<matcherVars, traceVars, diagramVars, storageVars,
                   editMode, pending, editorVars>>

\* complete(results): the rows are validated and cleaned; onDataLoaded
\* defers the update of App with setTimeout and onError(null) runs at once,
\* or what was thrown is passed to onError
complete ==
    /\ \E f \in parsing \cap {"tabla.csv", "vacia.csv"} :
          /\ parsing' = parsing \ {f}
          /\ LET raised == validateCSVStructure(FileRows(f))
                 cleanedData == cleanCSVData(FileRows(f))
             IN  IF raised # <<>>
                 THEN /\ handleFileError(raised)
                      /\ lastLoad' = Failed(raised)
                      /\ UNCHANGED pending
                 ELSE IF Len(cleanedData) = 0
                 THEN /\ handleFileError(<<FileError("NoValidRows")>>)
                      /\ lastLoad' = Failed(<<FileError("NoValidRows")>>)
                      /\ UNCHANGED pending
                 ELSE /\ Len(pending) < MaxPending
                      /\ pending' = Append(pending, cleanedData)
                      /\ handleFileError(<<>>)
                      /\ lastLoad' = Loaded(cleanedData)
    /\ UNCHANGED <<matcherVars, traceVars, diagramVars, storageVars,
                   editMode, editorVars>>

\* error(error): Papa.parse could not read the file
parseError ==
    /\ "ilegible.csv" \in parsing
    /\ parsing' = parsing \ {"ilegible.csv"}
    /\ handleFileError(<<FileError("Unreadable")>>)
    /\ lastLoad' = Failed(<<FileError("Unreadable")>>)
    /\ UNCHANGED <<matcherVars, traceVars, diagramVars, storageVars,
                   editMode, pending, editorVars>>

\* The callback handleDataLoaded passed to setTimeout runs (timers of equal
\* delay run in the order they were set)
runTimeout ==
    /\ pending # <<>>
    /\ routingData' = Head(pending)
    /\ traceResult' = <<>>
    /\ error' = <<>>
    /\ pending' = Tail(pending)
    /\ Persist(Head(pending))
    /\ UNCHANGED <<matcherVars, traceVars, diagramVars, editMode, parsing,
                   lastLoad, editorVars>>

\* The equipment and addresses submitted with TraceRouteForm
FormChoices ==
    {Call(e, Dotted(<<192, 168, 1, 1>>), Dotted(<<192, 168, 1, 50>>), <<>>) :
         e \in {"RouterA", "RouterB"}}

\* handleExecuteTraceroute({sourceEquipment, sourceIP, destIP}), from the
\* form, which is disabled while the table is empty:
\* setTraceResult(result), setError(result.success ? null : result.error)
handleExecuteTraceroute ==
    /\ Len(routingData) > 0
    /\ \E c \in FormChoices :
          LET returned == executeTraceroute(c.sourceEquipment, c.sourceIP,
                                            c.destIP, routingData)
          IN  /\ traceResult' = <<returned>>
              /\ error' = (IF returned.success THEN <<>> ELSE returned.error)
    /\ lastLoad' = <<>>
    /\ UNCHANGED <<matcherVars, traceVars, diagramVars, storageVars,
                   routingData, editMode, pending, parsing, editorVars>>

\* handleRoutingDataChange(newData)
handleRoutingDataChange(newData) ==
    /\ routingData' = newData
    /\ Persist(newData)
    /\ lastLoad' = <<>>
    /\ UNCHANGED <<matcherVars, traceVars, diagramVars, traceResult, error,
                   editMode, pending, parsing>>

\* DataManager.handleClearData (confirmed): clearRoutingData, then
\* App.handleClearData
handleClearData ==
    /\ localStorage[STORAGE_KEY] # <<>>
    /\ localStorage' = [localStorage EXCEPT ![STORAGE_KEY] = <<>>]
    /\ routingData' = <<>>
    /\ traceResult' = <<>>
    /\ error' = <<>>
    /\ lastLoad' = <<>>
    /\ UNCHANGED <<matcherVars, traceVars, diagramVars, now, thrown, saved,
                   editMode, pending, parsing, editorVars>>

\* The entry of a new piece of equipment
DefaultEntry(equipo) == Route(equipo, <<0, 0, 0, 0>>, 0, Directo)

\* toggleEditMode
toggleEditMode ==
    /\ editMode' = ~editMode
    /\ IF ~editMode /\ Len(routingData) = 0
       THEN /\ routingData' = <<DefaultEntry("Equipo1")>>
            /\ Persist(<<DefaultEntry("Equipo1")>>)
            /\ lastLoad' = <<>>
       ELSE UNCHANGED <<routingData, storageVars, lastLoad>>
    /\ UNCHANGED <<matcherVars, traceVars, diagramVars, traceResult, error,
                   pending, parsing, editorVars>>

\* The editor is rendered, and the row of editingIndex is among its rows
EditorShown == Len(routingData) > 0

RowInEdition ==
    /\ EditorShown
    /\ editingIndex # <<>>
    /\ editingIndex[1] < Len(routingData)

\* handleEdit(index), from the Edit button of a row that is not in edition
handleEdit ==
    /\ EditorShown
    /\ \E index \in 0..(Len(routingData) - 1) :
          /\ editingIndex # <<index>>
          /\ editingIndex' = <<index>>
          /\ editForm' = routingData[index + 1]
          /\ opened' = <<routingData[index + 1]>>
    /\ UNCHANGED <<matcherVars, traceVars, diagramVars, storageVars, appVars>>

\* The gateway a user types into the row in edition
TypedGateway == Dotted(<<10, 0, 1, 3>>)

\* setEditForm({...editForm, Gateway: e.target.value})
changeForm ==
    /\ RowInEdition
    /\ editForm.Gateway # TypedGateway
    /\ editForm' = [editForm EXCEPT !.Gateway = TypedGateway]
    /\ UNCHANGED <<matcherVars, traceVars, diagramVars, storageVars, appVars,
                   editingIndex, opened>>

\* handleSave, from the Save button of the row in edition
handleSave ==
    /\ RowInEdition
    /\ handleRoutingDataChange(
           [routingData EXCEPT ![editingIndex[1] + 1] = editForm])
    /\ editingIndex' = <<>>
    /\ opened' = <<>>
    /\ UNCHANGED editForm

\* handleCancel, from the Cancel button of the row in edition
handleCancel ==
    /\ RowInEdition
    /\ editingIndex' = <<>>
    /\ editForm' = EmptyForm
    /\ opened' = <<>>
    /\ UNCHANGED <<matcherVars, traceVars, diagramVars, storageVars, appVars>>

\* handleDelete(index) (confirmed), from the Delete button of a row that is
\* not in edition
handleDelete ==
    /\ EditorShown
    /\ \E index \in 0..(Len(routingData) - 1) :
          /\ editingIndex # <<index>>
          /\ handleRoutingDataChange(
                 SubSeq(routingData, 1, index)
                     \o SubSeq(routingData, index + 2, Len(routingData)))
    /\ UNCHANGED editorVars

\* handleAddNew with every prompt left empty
handleAddNew ==
    /\ EditorShown
    /\ handleRoutingDataChange(Append(routingData,
                                      DefaultEntry("NuevoEquipo")))
    /\ UNCHANGED editorVars

\* App with FileUploader, DataManager and TraceRouteForm, from its mounting
LoadInit ==
    /\ MatcherUnused
    /\ MatcherIdle
    /\ UiUnused

LoadNext ==
    \/ processFile
    \/ complete
    \/ parseError
    \/ runTimeout
    \/ handleExecuteTraceroute
    \/ handleClearData
    \/ toggleEditMode

LoadSpec == LoadInit /\ [][LoadNext]_vars

\* The object saveRoutingData stored for the table of the README, loaded
\* from tabla.csv into the mounted App
FirstSave == [data |-> <<ReadmeTable>>, timestamp |-> 1, version |-> "1.0"]

\* App with RoutingTableEditor and TraceRouteForm, from the state in which
\* tabla.csv has been loaded and saved
EditInit ==
    /\ MatcherUnused
    /\ MatcherIdle
    /\ DiagramUnused
    /\ localStorage = [key \in {STORAGE_KEY, STORAGE_HISTORY_KEY} |->
                          IF key = STORAGE_KEY THEN <<FirstSave>>
                          ELSE <<<<HistoryEntry(FirstSave)>>>>]
    /\ now = 1
    /\ thrown = 0
    /\ saved = <<FirstSave>>
    /\ routingData = ReadmeTable
    /\ traceResult = <<>>
    /\ error = <<>>
    /\ editMode = FALSE
    /\ pending = <<>>
    /\ parsing = {}
    /\ lastLoad = Loaded(ReadmeTable)
    /\ EditorClosed

EditNext ==
    \/ handleExecuteTraceroute
    \/ handleEdit
    \/ changeForm
    \/ handleSave
    \/ handleCancel
    \/ handleDelete
    \/ handleAddNew

EditSpec == EditInit /\ [][EditNext]_vars

\* The state of App after tabla.csv was handed over, read and loaded is the
\* one RoutingTableEditor starts from in EditSpec
LoadedAsEditInit == EditInit

----------------------------------------------------------------------------
(* Calls of executeTraceroute repeated on a table in which 'directo' is
   written in another case *)

\* Only the first MaxRespelt routes of a table are respelled one at a time
MaxRespelt == 3

DirectoSpellings ==
    {<<"D", "i", "r", "e", "c", "t", "o">>,
     <<"D", "I", "R", "E", "C", "T", "O">>,
     <<"d", "I", "r", "E", "c", "T", "o">>}

\* The routes of a table (as indices) whose Gateway is written 'directo'
WrittenDirecto(table) ==
    {i \in 1..Len(table) : table[i].Gateway = Directo}

\* The table with the Gateway of the routes I written as v
Respelled(table, I, v) ==
    [i \in 1..Len(table) |->
        IF i \in I THEN [table[i] EXCEPT !.Gateway = v] ELSE table[i]]

\* The caller keeps the returned object and calls executeTraceroute again
\* with the same arguments and a table in which 'directo' is written in
\* another case, in one route or in all of them
CallRespelled ==
    /\ pc = "done"
    /\ caller.returned = <<>>
    /\ \E v \in DirectoSpellings :
          \E I \in {WrittenDirecto(routingTable)}
                      \cup {{i} : i \in WrittenDirecto(routingTable)
                                          \cap (1..MaxRespelt)} :
              routingTable' = Respelled(routingTable, I, v)
    /\ caller' = [caller EXCEPT !.returned = Append(@, result[1])]
    /\ hops' = <<>>
    /\ visitedEquipment' = {}
    /\ currentEquipment' = sourceEquipment
    /\ hopCount' = 0
    /\ routeEntry' = <<>>
    /\ nextEquipment' = <<>>
    /\ pc' = "validate"
    /\ result' = <<>>
    /\ UNCHANGED <<matcherVars, uiVars, sourceEquipment, sourceIP, destIP>>

RespellNext ==
    \/ Next
    \/ CallRespelled

RespellSpec == RepeatInit /\ [][RespellNext]_vars

----------------------------------------------------------------------------
(* Calls of executeTraceroute on tables whose routes may lack a field *)

\* Longest table drawn from LooseUniverse
MaxLooseRoutes == 2

\* Routes without a Gateway string (the selected route of A for the
\* destination, a route of B on the network of A's gateway), and a route whose
\* Mascara is missing and so is falsy like the empty string
LooseRoutes ==
    {[Equipo |-> "A", IP_Destino |-> Dotted(<<192, 168, 1, 0>>),
      Mascara |-> Cidr(24)],
     [Equipo |-> "B", IP_Destino |-> Dotted(<<10, 0, 1, 0>>),
      Mascara |-> Cidr(24)],
     [Equipo |-> "A", IP_Destino |-> Dotted(<<192, 168, 1, 0>>),
      Mascara |-> <<>>, Gateway |-> Directo]}

LooseUniverse == RouteUniverse \cup LooseRoutes

LooseTables ==
    UNION {{t \in [1..n -> LooseUniverse] :
                \A i, j \in 1..n : i # j => t[i] # t[j]} :
           n \in 0..MaxLooseRoutes}

LooseCalls ==
    {Call(e, Dotted(SourceOctets), dst, t) :
         e \in {"", "A", "B"}, dst \in {<<>>, Dotted(DestOctets)},
         t \in LooseTables}
    \cup {Call("R1", Dotted(SourceOctets), Dotted(DestOctets), t) :
              t \in FewChainTables}

LooseInit ==
    /\ \E c \in LooseCalls :
          /\ sourceEquipment = c.sourceEquipment
          /\ sourceIP = c.sourceIP
          /\ destIP = c.destIP
          /\ routingTable = c.routingTable
    /\ hops = <<>>
    /\ visitedEquipment = {}
    /\ currentEquipment = sourceEquipment
    /\ hopCount = 0
    /\ routeEntry = <<>>
    /\ nextEquipment = <<>>
    /\ pc = "validate"
    /\ result = <<>>
    /\ caller = FirstCall
    /\ MatcherUnused
    /\ UiUnused

LooseNext ==
    \/ Next
    \/ CatchError

LooseSpec == LooseInit /\ [][LooseNext]_vars

----------------------------------------------------------------------------
(* Claims about the address matcher (checked under MatcherSpec) *)

\* The octets and the prefix length a drawn text was written from
OctetsOf(s) == CHOOSE o \in AddressOctets \cup NetworkOctets : Dotted(o) = s
PrefixOf(m) == CHOOSE p \in 0..MaxPrefix : Cidr(p) = m

\* The top p bits of two addresses, given as octets, are equal
TopBitsEqual(a, b, p) ==
    /\ \A j \in 1..(p \div 8) : a[j] = b[j]
    /\ p % 8 # 0 =>
          a[(p \div 8) + 1] \div Pow2(8 - (p % 8))
              = b[(p \div 8) + 1] \div Pow2(8 - (p % 8))

\* C1: with the mask "/0", isIPInNetwork returns true for every valid
\* address and every valid network.
C1_SlashZeroMatchesAll ==
    (inNetwork # <<>> /\ mask = Cidr(0)) => inNetwork[1]

\* C2: for valid addresses and a prefix length p in 1..32, isIPInNetwork
\* is true exactly when the top p bits of address and network are equal;
\* for p = 32, exactly when the two addresses are the same.
C2_TopBits ==
    (inNetwork # <<>> /\ PrefixOf(mask) \in 1..32) =>
        /\ inNetwork[1] = TopBitsEqual(OctetsOf(ip), OctetsOf(network),
                                       PrefixOf(mask))
        /\ PrefixOf(mask) = 32 => (inNetwork[1] = (ip = network))

\* C2 witness: a /32 comparison of two different addresses whose first octet
\* is 128 or more has returned false
C2_Witness ==
    /\ inNetwork = <<FALSE>>
    /\ mask = Cidr(32)
    /\ ip # network
    /\ OctetsOf(ip)[1] >= 128
    /\ OctetsOf(network)[1] >= 128

\* C14: isIPInNetwork returns false whenever the address or the network is
\* not four dotted decimal octets in 0..255 (checked under MalformedSpec).
C14_MalformedNeverMatches ==
    (inNetwork # <<>> /\ (~validateIP(ip) \/ ~validateIP(network)))
        => ~inNetwork[1]

\* The mask is written with a prefix length above 32 or below 0
PrefixOutOfRange ==
    \/ \E p \in 33..MaxPrefix : mask = Cidr(p)
    \/ \E p \in 1..MaxPrefix : mask = NegativeCidr(p)

\* C15: isIPInNetwork returns false for every address and network when the
\* prefix length is outside 0..32 (checked under MalformedSpec).
C15_OutOfRangeNeverMatches ==
    (inNetwork # <<>> /\ PrefixOutOfRange) => ~inNetwork[1]

----------------------------------------------------------------------------
(* Claims about the path resolver (checked under Spec) *)

Done == pc = "done"

\* The returned object, and the kind of its error ("" on success)
Returned == result[1]
Kind == IF Returned.error = <<>> THEN "" ELSE Returned.error[1].kind

IsDirecto(route) == toLowerCase(route.Gateway) = Directo

\* The routes (as table indices) owned by equipment d that contain the
\* destination, those of them with the greatest prefix length, and the first
\* of these in table order
OwnMatching(d) ==
    {i \in 1..Len(routingTable) :
        /\ routingTable[i].Equipo = d
        /\ isIPInNetwork(destIP, routingTable[i].IP_Destino,
                         routingTable[i].Mascara)}

MostSpecific(d) ==
    {i \in OwnMatching(d) :
        \A j \in OwnMatching(d) :
            MaskOf(routingTable[j]).v <= MaskOf(routingTable[i]).v}

FirstMostSpecific(d) ==
    CHOOSE i \in MostSpecific(d) : \A j \in MostSpecific(d) : i <= j

\* Hop h reports route i: its network and mask, and its gateway (the text
\* 'directo' and no next equipment when the route is directly connected)
HopUses(h, i) ==
    /\ h.destNetwork = routingTable[i].IP_Destino \o routingTable[i].Mascara
    /\ IF IsDirecto(routingTable[i])
       THEN h.gateway = Directo /\ h.nextEquipment = <<>>
       ELSE h.gateway = routingTable[i].Gateway /\ h.nextEquipment # <<>>

\* The current equipment has been processed by an iteration of the loop
Processed == currentEquipment \in visitedEquipment

\* C3: at every hop the route used is a longest-prefix match: a route of the
\* hop's equipment that contains the destination and whose prefix length is
\* the greatest among such routes.
C3_LongestPrefix ==
    Done =>
        \A k \in 1..Len(Returned.hops) :
            \E i \in MostSpecific(Returned.hops[k].currentEquipment) :
                HopUses(Returned.hops[k], i)

\* C3 witness: a returned hop of an equipment that has two matching routes of
\* different prefix lengths, the less specific one first in the table
C3_Witness ==
    /\ Done
    /\ \E k \in 1..Len(Returned.hops) :
          \E i, j \in OwnMatching(Returned.hops[k].currentEquipment) :
              /\ i < j
              /\ MaskOf(routingTable[i]).v < MaskOf(routingTable[j]).v

\* C4: when several matching routes of the hop's equipment share the
\* greatest prefix length, the hop uses the first of them in table order.
C4_FirstOfTies ==
    Done =>
        \A k \in 1..Len(Returned.hops) :
            Cardinality(MostSpecific(Returned.hops[k].currentEquipment)) > 1
                => HopUses(Returned.hops[k],
                           FirstMostSpecific(Returned.hops[k].currentEquipment))

\* C4 witness: a returned hop of an equipment with two most specific matching
\* routes that have different gateways
C4_Witness ==
    /\ Done
    /\ \E k \in 1..Len(Returned.hops) :
          \E i, j \in MostSpecific(Returned.hops[k].currentEquipment) :
              /\ i # j
              /\ routingTable[i].Gateway # routingTable[j].Gateway

\* C5: the call succeeds exactly when the traversal has processed an equipment
\* whose most specific route for the destination is directly connected; the
\* last hop is then the terminal hop of that equipment and no earlier hop
\* has a null next equipment.
C5_SuccessIffDirect ==
    Done =>
        /\ Returned.success =
              (/\ Processed
               /\ MostSpecific(currentEquipment) # {}
               /\ IsDirecto(routingTable[FirstMostSpecific(currentEquipment)]))
        /\ Returned.success =>
              /\ Returned.error = <<>>
              /\ Returned.hops # <<>>
              /\ Returned.hops[Len(Returned.hops)] =
                    [currentEquipment |-> currentEquipment,
                     destNetwork |->
                        routingTable[FirstMostSpecific(currentEquipment)].IP_Destino
                        \o routingTable[FirstMostSpecific(currentEquipment)].Mascara,
                     gateway |-> Directo,
                     nextEquipment |-> <<>>]
              /\ \A k \in 1..(Len(Returned.hops) - 1) :
                    Returned.hops[k].nextEquipment # <<>>

\* C5 witness: a successful return after at least one forwarding hop
C5_Witness ==
    /\ Done
    /\ Returned.success
    /\ Len(Returned.hops) >= 2

\* The last returned hop leads to an equipment that an earlier hop left from
LedBack ==
    /\ Returned.hops # <<>>
    /\ Returned.hops[Len(Returned.hops)].nextEquipment # <<>>
    /\ \E k \in 1..Len(Returned.hops) :
          Returned.hops[k].currentEquipment =
              Returned.hops[Len(Returned.hops)].nextEquipment[1]

LoopReported ==
    /\ Kind = "RoutingLoop"
    /\ Returned.error[1].equipo =
          Returned.hops[Len(Returned.hops)].nextEquipment[1]
    /\ Len(Returned.hops) = Cardinality(visitedEquipment)

\* C6 as stated: whenever the path leads to an equipment already visited,
\* the call returns the routing-loop failure naming it, with one hop per
\* visited equipment.
C6_LoopAlwaysReported == (Done /\ LedBack) => LoopReported

\* C6 as amended: when the path leads to an equipment already visited after
\* fewer than MAX_HOPS hops, the call returns the routing-loop failure naming
\* that equipment, with one hop per visited equipment.
C6_LoopReportedBelowLimit ==
    (Done /\ LedBack /\ Len(Returned.hops) < MAX_HOPS) => LoopReported

\* C6 witness: a two-equipment loop has been reported with two hops
C6_Witness ==
    /\ Done
    /\ LedBack
    /\ Kind = "RoutingLoop"
    /\ Len(Returned.hops) = 2
    /\ Cardinality(visitedEquipment) = 2

\* C7: no result carries more than MAX_HOPS hops, and the hop-limit failure
\* is returned exactly when MAX_HOPS hops were made and the last one still
\* forwards (as in a chain of MAX_HOPS + 1 different equipment).
C7_HopLimit ==
    Done =>
        /\ Len(Returned.hops) <= MAX_HOPS
        /\ (Kind = "HopLimitExceeded") =
              (/\ Len(Returned.hops) = MAX_HOPS
               /\ Returned.hops[MAX_HOPS].nextEquipment # <<>>)

\* C7 witness: the hop-limit failure after MAX_HOPS hops through
\* MAX_HOPS + 1 pairwise different equipment
C7_Witness ==
    /\ Done
    /\ Kind = "HopLimitExceeded"
    /\ Len(Returned.hops) = MAX_HOPS
    /\ Cardinality({Returned.hops[k].currentEquipment :
                        k \in 1..Len(Returned.hops)}
                   \cup {Returned.hops[MAX_HOPS].nextEquipment[1]})
          = MAX_HOPS + 1

\* C8: in every hop that forwards, the next equipment differs from the hop's
\* equipment and owns a directly connected route whose network contains the
\* hop's gateway.
C8_NextOwnsGateway ==
    Done =>
        \A k \in 1..Len(Returned.hops) :
            Returned.hops[k].nextEquipment # <<>> =>
                /\ Returned.hops[k].nextEquipment[1]
                      # Returned.hops[k].currentEquipment
                /\ \E i \in 1..Len(routingTable) :
                      /\ routingTable[i].Equipo
                            = Returned.hops[k].nextEquipment[1]
                      /\ IsDirecto(routingTable[i])
                      /\ isIPInNetwork(Returned.hops[k].gateway,
                                       routingTable[i].IP_Destino,
                                       routingTable[i].Mascara)

\* C8 witness: a forwarding hop whose own equipment has, earlier in the table
\* than the next equipment's, a directly connected route containing the
\* gateway
C8_Witness ==
    /\ Done
    /\ \E k \in 1..Len(Returned.hops) :
          /\ Returned.hops[k].nextEquipment # <<>>
          /\ \E i, j \in 1..Len(routingTable) :
                /\ i < j
                /\ routingTable[i].Equipo = Returned.hops[k].currentEquipment
                /\ IsDirecto(routingTable[i])
                /\ isIPInNetwork(Returned.hops[k].gateway,
                                 routingTable[i].IP_Destino,
                                 routingTable[i].Mascara)
                /\ routingTable[j].Equipo = Returned.hops[k].nextEquipment[1]

\* The gateway is contained in no directly connected route of an equipment
\* other than d
NobodyElseConnected(gateway, d) ==
    \A i \in 1..Len(routingTable) :
        ~(/\ routingTable[i].Equipo # d
          /\ IsDirecto(routingTable[i])
          /\ isIPInNetwork(gateway, routingTable[i].IP_Destino,
                           routingTable[i].Mascara))

\* C9: when the route selected at the processed equipment has a gateway that
\* no directly connected route of another equipment contains, the call
\* returns the unresolved-gateway failure with that gateway and equipment,
\* and no hop of that equipment is in the result.
C9_UnresolvedGateway ==
    (/\ Done
     /\ Processed
     /\ MostSpecific(currentEquipment) # {}
     /\ ~IsDirecto(routingTable[FirstMostSpecific(currentEquipment)])
     /\ NobodyElseConnected(
            routingTable[FirstMostSpecific(currentEquipment)].Gateway,
            currentEquipment))
    => /\ Kind = "UnresolvedGateway"
       /\ Returned.error[1].ip
             = routingTable[FirstMostSpecific(currentEquipment)].Gateway
       /\ Returned.error[1].equipo = currentEquipment
       /\ \A k \in 1..Len(Returned.hops) :
             Returned.hops[k].currentEquipment # currentEquipment
       /\ currentEquipment = sourceEquipment => Returned.hops = <<>>

\* C9 witness: the unresolved-gateway failure at the second equipment of a
\* path
C9_Witness ==
    /\ Done
    /\ Kind = "UnresolvedGateway"
    /\ Len(Returned.hops) = 1
    /\ currentEquipment # sourceEquipment

\* C10: the no-route failure, with the destination and the equipment, is
\* returned exactly when the processed equipment owns no route that contains
\* the destination.
C10_NoRoute ==
    Done =>
        /\ (Kind = "NoRoute") = (Processed /\ OwnMatching(currentEquipment) = {})
        /\ Kind = "NoRoute" =>
              /\ Returned.error[1].ip = destIP
              /\ Returned.error[1].equipo = currentEquipment

\* C10 witness: the no-route failure at an equipment reached by a hop that
\* owns routes, none of which contains the destination
C10_Witness ==
    /\ Done
    /\ Kind = "NoRoute"
    /\ Len(Returned.hops) >= 1
    /\ \E i \in 1..Len(routingTable) :
          routingTable[i].Equipo = currentEquipment

\* The failures detected during the traversal
TraversalFailure ==
    Kind \in {"NoRoute", "UnresolvedGateway", "RoutingLoop", "HopLimitExceeded"}

\* C11: a failure detected during the traversal returns the hops appended by
\* the iterations completed before it, in order and unmodified: one hop per
\* completed iteration, the first at the source equipment, each at the
\* equipment the previous one leads to, each reporting the route selected
\* there and its gateway.
C11_PartialHopsKept ==
    (Done /\ TraversalFailure) =>
        /\ Returned.hops = hops
        /\ Len(Returned.hops) = hopCount
        /\ \A k \in 1..Len(Returned.hops) :
              /\ Returned.hops[k].currentEquipment =
                    (IF k = 1 THEN sourceEquipment
                     ELSE Returned.hops[k - 1].nextEquipment[1])
              /\ Returned.hops[k].nextEquipment # <<>>
              /\ HopUses(Returned.hops[k],
                         FirstMostSpecific(Returned.hops[k].currentEquipment))

\* C11 witness: the no-route failure returned with two hops made before it
C11_Witness ==
    /\ Done
    /\ Kind = "NoRoute"
    /\ Len(Returned.hops) = 2
    /\ hopCount = 2

\* An argument of the call is empty or missing, or the table is empty
ArgumentMissing ==
    \/ sourceEquipment = ""
    \/ sourceIP = <<>>
    \/ destIP = <<>>
    \/ Len(routingTable) = 0

StartDeviceKnown ==
    \E i \in 1..Len(routingTable) : routingTable[i].Equipo = sourceEquipment

\* C12: the invalid-input failure is returned exactly when an argument is
\* empty or missing or the table is empty, whether or not the source
\* equipment is in the table; it carries no hop and no iteration has run.
C12_InvalidInputFirst ==
    Done =>
        /\ (Kind = "InvalidInput") = ArgumentMissing
        /\ Kind = "InvalidInput" =>
              /\ ~Returned.success
              /\ Returned.hops = <<>>
              /\ visitedEquipment = {}
              /\ hopCount = 0

\* C12 witness: the invalid-input failure for an empty source address, a
\* non-empty table and a source equipment that is not in the table
C12_Witness ==
    /\ Done
    /\ Kind = "InvalidInput"
    /\ sourceIP = <<>>
    /\ destIP # <<>>
    /\ routingTable # <<>>
    /\ sourceEquipment # ""
    /\ ~StartDeviceKnown

\* C13: the unknown-device failure is returned exactly when all arguments are
\* non-empty and no route of the table belongs to the source equipment; it
\* names the source equipment, carries no hop, and is never returned once an
\* iteration has run.
C13_UnknownDevice ==
    Done =>
        /\ (Kind = "UnknownDevice") = (~ArgumentMissing /\ ~StartDeviceKnown)
        /\ Kind = "UnknownDevice" =>
              /\ ~Returned.success
              /\ Returned.error[1].equipo = sourceEquipment
              /\ Returned.hops = <<>>
              /\ visitedEquipment = {}

\* C13 witness: the unknown-device failure for a non-empty table
C13_Witness ==
    /\ Done
    /\ Kind = "UnknownDevice"
    /\ routingTable # <<>>
    /\ Returned.hops = <<>>

\* C16: every call returns a result that is a success or a failure of one of
\* the six kinds, also for tables with routes that lack a field (checked
\* under LooseSpec).
C16_OnlySixKinds ==
    Done =>
        \/ Returned.success /\ Returned.error = <<>>
        \/ /\ ~Returned.success
           /\ Kind \in {"InvalidInput", "UnknownDevice", "NoRoute",
                         "UnresolvedGateway", "RoutingLoop", "HopLimitExceeded"}

\* C17: in every hop of every returned result, the next equipment is null
\* exactly when the hop's gateway is the text 'directo'.
C17_NullNextIffDirecto ==
    Done =>
        \A k \in 1..Len(Returned.hops) :
            (Returned.hops[k].nextEquipment = <<>>)
                = (Returned.hops[k].gateway = Directo)

\* C17 witness: a result with a forwarding hop, whose gateway is an address
\* and whose next equipment is set, followed by the terminal hop
C17_Witness ==
    /\ Done
    /\ Len(Returned.hops) = 2
    /\ Returned.hops[1].gateway # Directo
    /\ Returned.hops[1].nextEquipment # <<>>
    /\ Returned.hops[2].gateway = Directo
    /\ Returned.hops[2].nextEquipment = <<>>

----------------------------------------------------------------------------
(* Claims about repeated calls (checked under RepeatSpec) *)

\* C18: a call with the same source equipment, destination and table as an
\* earlier call, and any non-empty source address, returns the same outcome,
\* the same failure and the same hops as the earlier call; the source
\* address is only echoed in the returned object.
C18_SourceAddressOnlyEchoed ==
    Done =>
        /\ Returned.sourceIP = sourceIP
        /\ \A k \in 1..Len(caller.returned) :
              /\ Returned.success = caller.returned[k].success
              /\ Returned.error = caller.returned[k].error
              /\ Returned.hops = caller.returned[k].hops

\* C18 witness: a second call, with another source address than the first,
\* has returned a result with a hop
C18_Witness ==
    /\ Done
    /\ caller.returned # <<>>
    /\ caller.returned[1].sourceIP # sourceIP
    /\ sourceIP # <<>>
    /\ Returned.hops # <<>>

----------------------------------------------------------------------------
(* Termination (checked under FairSpec) *)

\* C20: every call returns, after at most MAX_HOPS iterations of the loop
\* (an iteration is never running after MAX_HOPS completed ones), with a
\* result that is either a success without error or a failure with one.
C20_TerminatesWithinLimit ==
    /\ <>Done
    /\ [](/\ hopCount <= MAX_HOPS
          /\ pc \in {"route", "gateway"} => hopCount < MAX_HOPS
          /\ Cardinality(visitedEquipment) <= MAX_HOPS
          /\ Done => (Returned.success = (Returned.error = <<>>)))

\* C20 witness: a call has returned after MAX_HOPS iterations
C20_Witness ==
    /\ Done
    /\ hopCount = MAX_HOPS
    /\ Cardinality(visitedEquipment) = MAX_HOPS

----------------------------------------------------------------------------
(* Claims about the spelling of 'directo' (checked under RespellSpec) *)

\* C21: a call on a table in which 'directo' is written in another case, in
\* one route or in all, returns the same success, the same error and the same
\* hops (the same equipment traversed) as the call on the table as it was.
C21_DirectoInAnyCase ==
    (Done /\ caller.returned # <<>>) =>
        /\ Returned.success = caller.returned[1].success
        /\ Returned.error = caller.returned[1].error
        /\ Returned.hops = caller.returned[1].hops

\* C21 witness: on a table in which no route is written 'directo' any more,
\* the second call has forwarded over a respelled route of the next
\* equipment and ended at a respelled route
C21_Witness ==
    /\ Done
    /\ caller.returned # <<>>
    /\ routingTable # caller.table
    /\ WrittenDirecto(routingTable) = {}
    /\ Returned.success
    /\ Len(Returned.hops) >= 2

----------------------------------------------------------------------------
(* The first case of the README (checked under Spec) *)

\* The texts of the README case, character by character
Text_192_168_1_0_24 ==
    <<"1", "9", "2", ".", "1", "6", "8", ".", "1", ".", "0", "/", "2", "4">>
Text_10_0_1_2 == <<"1", "0", ".", "0", ".", "1", ".", "2">>
Text_directo == <<"d", "i", "r", "e", "c", "t", "o">>

CalledAsInReadme ==
    /\ routingTable = ReadmeTable
    /\ sourceEquipment = "RouterA"
    /\ destIP = Dotted(<<192, 168, 1, 50>>)

\* C22: on the four-route table of the README, the call (RouterA,
\* 192.168.1.1, 192.168.1.50) succeeds without error with exactly the two
\* hops {RouterA, 192.168.1.0/24, 10.0.1.2, RouterB} and
\* {RouterB, 192.168.1.0/24, directo, null}.
C22_ReadmeCase ==
    (Done /\ CalledAsInReadme) =>
        /\ Returned.success
        /\ Returned.error = <<>>
        /\ Returned.hops =
              <<[currentEquipment |-> "RouterA",
                 destNetwork |-> Text_192_168_1_0_24,
                 gateway |-> Text_10_0_1_2,
                 nextEquipment |-> <<"RouterB">>],
                [currentEquipment |-> "RouterB",
                 destNetwork |-> Text_192_168_1_0_24,
                 gateway |-> Text_directo,
                 nextEquipment |-> <<>>]>>

\* C22 witness: the README call has returned
C22_Witness ==
    /\ Done
    /\ CalledAsInReadme
    /\ sourceIP = Dotted(<<192, 168, 1, 1>>)
    /\ Len(Returned.hops) = 2

----------------------------------------------------------------------------
(* The shape of the returned hops (checked under Spec) *)

\* The equipment named in the table
EquipmentOf(table) == {table[i].Equipo : i \in 1..Len(table)}

\* C25: the hops of a returned result are at pairwise different equipment,
\* and there are at most as many hops as the table names equipment.
C25_HopsAtDistinctEquipment ==
    Done =>
        /\ \A i, j \in 1..Len(Returned.hops) :
              i # j => Returned.hops[i].currentEquipment
                           # Returned.hops[j].currentEquipment
        /\ Len(Returned.hops) <= Cardinality(EquipmentOf(routingTable))

\* C25 witness: a trace that came back to visited equipment after a hop at
\* every equipment of the table
C25_Witness ==
    /\ Done
    /\ Kind = "RoutingLoop"
    /\ Len(Returned.hops) >= 2
    /\ Len(Returned.hops) = Cardinality(EquipmentOf(routingTable))

\* C26: the hops of a returned result are a connected chain: the first hop is
\* at the source equipment, and each later hop is at the equipment the hop
\* before it names as next.
C26_HopsAreAChain ==
    (Done /\ Len(Returned.hops) > 0) =>
        /\ Returned.hops[1].currentEquipment = sourceEquipment
        /\ \A k \in 1..(Len(Returned.hops) - 1) :
              Returned.hops[k].nextEquipment
                  = <<Returned.hops[k + 1].currentEquipment>>

\* C26 witness: a successful trace of three hops
C26_Witness ==
    /\ Done
    /\ Returned.success
    /\ Len(Returned.hops) = 3

----------------------------------------------------------------------------
(* The resolution of a gateway among several owners (checked under Spec) *)

\* The directly connected routes (as table indices) of equipment other than
\* d whose network contains the gateway
ConnectedToGateway(gateway, d) ==
    {i \in 1..Len(routingTable) :
        /\ routingTable[i].Equipo # d
        /\ IsDirecto(routingTable[i])
        /\ isIPInNetwork(gateway, routingTable[i].IP_Destino,
                         routingTable[i].Mascara)}

\* The table in the opposite order
Reversed(table) == [i \in 1..Len(table) |-> table[Len(table) + 1 - i]]

\* C27: the next equipment of a forwarding hop is the owner of the first
\* route in table order, whatever its prefix length, among the directly
\* connected routes of other equipment that contain the hop's gateway; it is
\* a function of the gateway, the table and the hop's equipment alone.
C27_FirstOwnerInTableOrder ==
    Done =>
        \A k \in 1..Len(Returned.hops) :
            Returned.hops[k].nextEquipment # <<>> =>
                LET owners == ConnectedToGateway(Returned.hops[k].gateway,
                                  Returned.hops[k].currentEquipment)
                IN  /\ owners # {}
                    /\ \E i \in owners :
                          /\ \A j \in owners : i <= j
                          /\ Returned.hops[k].nextEquipment
                                = <<routingTable[i].Equipo>>

\* C27 witness: the gateway of the first hop is on the /16 network of C and
\* on the /24 network of B; C's route comes first, so the hop leads to C, and
\* on the table in the opposite order the gateway resolves to B
C27_Witness ==
    /\ Done
    /\ Len(Returned.hops) >= 1
    /\ Returned.hops[1].nextEquipment = <<"C">>
    /\ \E i, j \in ConnectedToGateway(Returned.hops[1].gateway, "A") :
          /\ i < j
          /\ routingTable[i].Equipo = "C"
          /\ routingTable[j].Equipo = "B"
          /\ MaskOf(routingTable[i]).v < MaskOf(routingTable[j]).v
    /\ findEquipmentByGateway(Returned.hops[1].gateway,
                              Reversed(routingTable), "A") = <<"B">>

----------------------------------------------------------------------------
(* The diagram of a trace (checked under DiagramSpec) *)

\* The diagram has been drawn for the returned result
Drawn == Done /\ nodes # <<>>

\* An edge of the diagram joins equipment a and b
Joins(edge, a, b) ==
    \/ edge.source = a /\ edge.target = b
    \/ edge.source = b /\ edge.target = a

\* C23: once the diagram is drawn for a result, every hop that forwards has
\* an edge between its equipment and its next equipment, and that edge is
\* highlighted.
C23_HopEdgesHighlighted ==
    Drawn =>
        \A h \in 1..Len(Returned.hops) :
            Returned.hops[h].nextEquipment # <<>> =>
                \E k \in 1..Len(edges) :
                    /\ Joins(edges[k], Returned.hops[h].currentEquipment,
                             Returned.hops[h].nextEquipment[1])
                    /\ edges[k].animated

----------------------------------------------------------------------------
(* The history of saves (checked under StorageSpec) *)

\* C24: the stored history has at most MAX_HISTORY_ITEMS entries and is,
\* latest first, the timestamps and item counts of the latest saves that
\* returned true since the history was last cleared (all of them, or the
\* latest MAX_HISTORY_ITEMS).
C24_HistoryIsLatestSaves ==
    /\ Len(getHistory) <= MAX_HISTORY_ITEMS
    /\ Len(getHistory) = (IF Len(saved) < MAX_HISTORY_ITEMS THEN Len(saved)
                          ELSE MAX_HISTORY_ITEMS)
    /\ \A k \in 1..Len(getHistory) :
          /\ getHistory[k].timestamp = saved[k].timestamp
          /\ getHistory[k].itemCount =
                (IF saved[k].data = <<>> THEN 0 ELSE Len(saved[k].data[1]))

\* C28: Save in the routing-table editor replaces exactly the entry the
\* user opened with Edit, and leaves every other entry and the length of
\* the table as they were, whatever was deleted or added in between
C28_SaveReplacesOpenedEntry ==
    [][handleSave =>
          \E i \in 1..Len(routingData) :
              /\ routingData[i] = opened[1]
              /\ routingData' = [routingData EXCEPT ![i] = editForm]]_vars

C30_LastLoadShown ==
    (pending = <<>> /\ lastLoad # <<>>) =>
        IF lastLoad[1].ok
        THEN /\ routingData = lastLoad[1].rows
             /\ error = <<>>
             /\ traceResult = <<>>
        ELSE /\ routingData = <<>>
             /\ error = lastLoad[1].message

============================================================================
